---- MODULE Spec2Model ----
(***************************************************************************)
(* Authentication service: token lifecycle (login / refresh / logout /     *)
(* bearer-token check), the in-memory revocation registry and invite-gated *)
(* registration, modelled from the controllers, the middleware, the route  *)
(* wiring and the database adapter.                                        *)
(*                                                                         *)
(* Tokens are symbolic JWTs: a claim set plus a signature that is the MAC  *)
(* of the claims under the signing secret.  Handlers that run in a single  *)
(* event-loop turn (login's issuance, refresh, logout, profile) are one    *)
(* action followed by SendResponse; login awaits the user lookup and the   *)
(* password comparison first, but user rows are never updated or deleted,  *)
(* so the row it read is the row in the store.  registerUser and the admin *)
(* controllers are one action per store call, so that concurrent requests  *)
(* interleave at the awaits; what the admin router answers before the      *)
(* first store call (gate, body validation, role check) is single-turn.    *)
(***************************************************************************)
EXTENDS Integers, Sequences, FiniteSets, TLC

\* ------------------------------------------------------------------ bounds
MaxTime == 2          \* clock ticks explored
MaxLogins == 2        \* successful logins explored (one jti each)
MaxReq == 2           \* register requests explored per behaviour

\* ------------------------------------------------------ program constants
\* JWT_EXPIRES_IN ('15m') and JWT_REFRESH_EXPIRES_IN ('7d') in clock ticks.
JWT_EXPIRES_IN == 1
JWT_REFRESH_EXPIRES_IN == 2

\* ------------------------------------------------------------ input sets
Secrets == {"", "k1", "k2"}
Usernames == {"admin", "alice", "bob"}
Passwords == {"pw1", "pw2"}
allowedRoles == {"user", "admin", "moderator"}
BodyRoles == {"", "admin", "root"}
RegisterUsernames == {"alice", "bob"}
RegisterPassword == "pw2"
KnownCodes == {"c1", "c2"}
PresentedCodes == KnownCodes \cup {"cX"}
\* Admin routes: usernames and roles of POST /users bodies ("" is no role
\* field, " " is a role of blanks), quantities of POST /invite-codes bodies
\* (NoQuantity is no quantity field) and the values crypto.randomBytes yields.
AdminUsernames == {"alice"}
AdminBodyRoles == {"", " ", "user", "admin", "moderator", "root"}
MaxQuantity == 2      \* the upper limit of a batch (20), scaled down
NoQuantity == -1
Quantities == {NoQuantity} \cup (0..(MaxQuantity + 1))
RandomCodes == {"c3", "c4"}
ADMIN_USERNAME == "admin"
ADMIN_PASSWORD == "pw1"
ADMIN_ROLE == "admin"

NoJti == 0
NoUser == 0

VARIABLES
    JWT_SECRET,           \* process.env.JWT_SECRET
    JWT_REFRESH_SECRET,   \* process.env.JWT_REFRESH_SECRET
    phase,                \* "boot" | "running" | "exited"
    now,                  \* wall clock, in ticks
    users,                \* rows of table users
    nextUserId,           \* next value of the SERIAL sequence of users.id
    invite_codes,         \* rows of table invite_codes, keyed by code
    blacklistedTokens,    \* the in-memory Set of revoked jti values
    nextJti,              \* next value uuidv4() returns (fresh each call)
    tokens,               \* tokens handed to clients so far
    loggedOut,            \* history: issued refresh tokens for which logout has returned
    resp,                 \* the response being sent by a single-turn handler
    reqs                  \* register requests, by slot

vars == <<JWT_SECRET, JWT_REFRESH_SECRET, phase, now, users, nextUserId, invite_codes,
          blacklistedTokens, nextJti, tokens, loggedOut, resp, reqs>>

\* ------------------------------------------------------------ JWT layer
NoClaims == [id |-> NoUser, username |-> "", role |-> "", jti |-> NoJti, iat |-> 0, exp |-> 0]

\* HMAC of a claim set under a secret.
MAC(secret, claims) == <<secret, claims>>

\* Request-body values that are not decodable JWTs.
AbsentToken == [form |-> "absent", claims |-> NoClaims, sig |-> <<"", NoClaims>>]
NotJwtToken == [form |-> "notjwt", claims |-> NoClaims, sig |-> <<"", NoClaims>>]
GarbledToken == [form |-> "garbled", claims |-> NoClaims, sig |-> <<"", NoClaims>>]

\* jwt.sign(payload, secret, {expiresIn, jwtid}) at time t.
jwtSign(payload, secret, expiresIn, jwtid, t) ==
    LET claims == [id |-> payload.id, username |-> payload.username, role |-> payload.role,
                   jti |-> jwtid, iat |-> t, exp |-> t + expiresIn]
    IN [form |-> "jwt", claims |-> claims, sig |-> MAC(secret, claims)]

\* jwt.verify(token, secret, {ignoreExpiration}) at time t: signature first,
\* then expiry (expired when clock >= exp).
jwtVerify(token, secret, ignoreExpiration, t) ==
    IF token.form # "jwt" \/ token.sig # MAC(secret, token.claims)
    THEN [err |-> "JsonWebTokenError", decoded |-> NoClaims]
    ELSE IF ~ignoreExpiration /\ t >= token.claims.exp
    THEN [err |-> "TokenExpiredError", decoded |-> NoClaims]
    ELSE [err |-> "", decoded |-> token.claims]

generateAccessToken(user, t) ==
    jwtSign([id |-> user.id, username |-> user.username, role |-> user.role],
            JWT_SECRET, JWT_EXPIRES_IN, NoJti, t)

\* Variant: the refresh token carries the username too.
generateRefreshToken_withUsername(user, jwtid, t) ==
    jwtSign([id |-> user.id, username |-> user.username, role |-> user.role],
            JWT_REFRESH_SECRET, JWT_REFRESH_EXPIRES_IN, jwtid, t)

\* Variant: the token identifier is derived from the user, not drawn afresh.
generateRefreshToken_jtiPerUser(user, jwtid, t) ==
    jwtSign([id |-> user.id, username |-> "", role |-> user.role],
            JWT_REFRESH_SECRET, JWT_REFRESH_EXPIRES_IN, user.id, t)

generateRefreshToken(user, jwtid, t) ==
    jwtSign([id |-> user.id, username |-> "", role |-> user.role],
            JWT_REFRESH_SECRET, JWT_REFRESH_EXPIRES_IN, jwtid, t)

\* ------------------------------------------------- revocation registry
\* Variant: revoking a jti that is in the registry takes it out again.
addToBlacklist_toggle(set, jti) ==
    IF jti = NoJti THEN set
    ELSE IF jti \in set THEN set \ {jti} ELSE set \cup {jti}

\* Variant: the registry holds the last revoked jti only.
addToBlacklist_lastOnly(set, jti) == IF jti # NoJti THEN {jti} ELSE set

\* Variant: the jti is never stored.
addToBlacklist_dropped(set, jti) == set

\* Variant: no "if (jti)" guard around the insert.
addToBlacklist_unguarded(set, jti) == set \cup {jti}

addToBlacklist(set, jti) == IF jti # NoJti THEN set \cup {jti} ELSE set

isBlacklisted(set, jti) == IF jti # NoJti THEN jti \in set ELSE FALSE

\* ------------------------------------------------------- password hash
bcryptHash(password) == <<"bcrypt", password>>

bcryptCompare(password, passwordHash) == passwordHash = bcryptHash(password)

\* ------------------------------------------------------------ responses
Response(op, status, message, input, accessToken, refreshToken) ==
    [op |-> op, status |-> status, message |-> message, input |-> input,
     accessToken |-> accessToken, refreshToken |-> refreshToken]

NoResponse == Response("none", 0, "", AbsentToken, AbsentToken, AbsentToken)

\* --------------------------------------------------------------- store
\* SELECT ... FROM users WHERE username = $1 (the rows found).
findUserByUsername(rows, username) == {u \in rows : u.username = username}

\* Variant: no UNIQUE constraint on username.
addUser_noUnique(rows, seq, username, passwordHash, role) ==
    [error |-> "",
     rows |-> rows \cup {[id |-> seq, username |-> username, passwordHash |-> passwordHash,
                          role |-> (IF role # "" THEN role ELSE "user")]},
     newUser |-> seq]

\* INSERT INTO users ... RETURNING id, username, role; username is UNIQUE and
\* id comes from the sequence, which is consumed by every attempt.
addUser(rows, seq, username, passwordHash, role) ==
    IF \E u \in rows : u.username = username
    THEN [error |-> "Nome de usuario ja existe.", rows |-> rows, newUser |-> NoUser]
    ELSE [error |-> "",
          rows |-> rows \cup {[id |-> seq, username |-> username, passwordHash |-> passwordHash,
                               role |-> (IF role # "" THEN role ELSE "user")]},
          newUser |-> seq]

\* INSERT INTO invite_codes (code, created_by): code is UNIQUE; is_used and
\* used_by take their column defaults.
addInviteCode(codes, code, adminUserId) ==
    IF code \in DOMAIN codes
    THEN [error |-> "Codigo de convite duplicado.", codes |-> codes]
    ELSE [error |-> "",
          codes |-> [c \in DOMAIN codes \cup {code} |->
                        IF c = code
                        THEN [is_used |-> FALSE, created_by |-> adminUserId, used_by |-> NoUser]
                        ELSE codes[c]]]

\* Variant: a code that is not in the table is found as an unused one.
findInviteCode_anyCode(codes, code) ==
    IF code \in DOMAIN codes THEN {codes[code]}
    ELSE {[is_used |-> FALSE, created_by |-> NoUser, used_by |-> NoUser]}

\* SELECT ... FROM invite_codes WHERE code = $1 (the rows found).
findInviteCode(codes, code) == IF code \in DOMAIN codes THEN {codes[code]} ELSE {}

\* Variant: the row count of the update is not looked at.
markInviteCodeAsUsed_alwaysTrue(codes, code, userId) ==
    IF code \in DOMAIN codes /\ ~codes[code].is_used
    THEN [marked |-> TRUE,
          codes |-> [codes EXCEPT ![code] = [@ EXCEPT !.is_used = TRUE, !.used_by = userId]]]
    ELSE [marked |-> TRUE, codes |-> codes]

\* Variant: the update has no "AND is_used = false".
markInviteCodeAsUsed_unconditional(codes, code, userId) ==
    IF code \in DOMAIN codes
    THEN [marked |-> TRUE,
          codes |-> [codes EXCEPT ![code] = [@ EXCEPT !.is_used = TRUE, !.used_by = userId]]]
    ELSE [marked |-> FALSE, codes |-> codes]

\* UPDATE invite_codes SET is_used = true, used_by = $1 WHERE code = $2 AND
\* is_used = false: one conditional write; marked iff one row was updated.
markInviteCodeAsUsed(codes, code, userId) ==
    IF code \in DOMAIN codes /\ ~codes[code].is_used
    THEN [marked |-> TRUE,
          codes |-> [codes EXCEPT ![code] = [@ EXCEPT !.is_used = TRUE, !.used_by = userId]]]
    ELSE [marked |-> FALSE, codes |-> codes]

UserById(rows, id) == CHOOSE u \in rows : u.id = id

\* ------------------------------------------------- request body validation
\* refreshTokenValidationRules + handleValidationErrors: notEmpty, then isJWT.
refreshTokenValidation(token) ==
    IF token.form = "absent" THEN "Refresh token e obrigatorio."
    ELSE IF token.form = "notjwt" THEN "Formato de refresh token invalido."
    ELSE ""

\* ---------------------------------------------------------- controllers
\* Variant: an unknown username is answered differently from a wrong password.
loginUser_userNotFound(rows, username, password, jwtid, t) ==
    LET found == findUserByUsername(rows, username) IN
    IF found = {}
    THEN Response("login", 404, "Usuario nao encontrado.", AbsentToken, AbsentToken, AbsentToken)
    ELSE IF bcryptCompare(password, (CHOOSE u \in found : TRUE).passwordHash)
    THEN LET user == CHOOSE u \in found : TRUE IN
         Response("login", 200, "Login bem-sucedido!", AbsentToken,
                  generateAccessToken(user, t), generateRefreshToken(user, jwtid, t))
    ELSE Response("login", 401, "Credenciais invalidas.", AbsentToken, AbsentToken, AbsentToken)

\* loginUser controller: the response for a username and a password; jwtid is
\* the value uuidv4() returns for the refresh token.
loginUser(rows, username, password, jwtid, t) ==
    LET found == findUserByUsername(rows, username) IN
    IF found # {} /\ bcryptCompare(password, (CHOOSE u \in found : TRUE).passwordHash)
    THEN LET user == CHOOSE u \in found : TRUE IN
         Response("login", 200, "Login bem-sucedido!", AbsentToken,
                  generateAccessToken(user, t), generateRefreshToken(user, jwtid, t))
    ELSE Response("login", 401, "Credenciais invalidas.", AbsentToken, AbsentToken, AbsentToken)

\* Variant: an expired token is not told apart from an invalid one.
refreshToken_noExpiredCase(token, registry, t) ==
    IF token.form = "absent"
    THEN Response("refresh", 400, "Refresh token e obrigatorio.", token, AbsentToken, AbsentToken)
    ELSE LET v == jwtVerify(token, JWT_REFRESH_SECRET, FALSE, t) IN
         IF v.err # ""
         THEN Response("refresh", 403, "Refresh token invalido.", token, AbsentToken, AbsentToken)
         ELSE IF v.decoded.jti = NoJti \/ isBlacklisted(registry, v.decoded.jti)
         THEN Response("refresh", 401, "Refresh token invalido (revogado).", token, AbsentToken, AbsentToken)
         ELSE Response("refresh", 200, "", token,
                       generateAccessToken([id |-> v.decoded.id, role |-> v.decoded.role,
                                            username |-> "N/A"], t),
                       AbsentToken)

\* Variant: a successful refresh also reissues a refresh token.
refreshToken_rotating(token, registry, t) ==
    IF token.form = "absent"
    THEN Response("refresh", 400, "Refresh token e obrigatorio.", token, AbsentToken, AbsentToken)
    ELSE LET v == jwtVerify(token, JWT_REFRESH_SECRET, FALSE, t) IN
         IF v.err # ""
         THEN IF v.err = "TokenExpiredError"
              THEN Response("refresh", 401, "Refresh token expirado.", token, AbsentToken, AbsentToken)
              ELSE Response("refresh", 403, "Refresh token invalido.", token, AbsentToken, AbsentToken)
         ELSE IF v.decoded.jti = NoJti \/ isBlacklisted(registry, v.decoded.jti)
         THEN Response("refresh", 401, "Refresh token invalido (revogado).", token, AbsentToken, AbsentToken)
         ELSE Response("refresh", 200, "", token,
                       generateAccessToken([id |-> v.decoded.id, role |-> v.decoded.role,
                                            username |-> "N/A"], t),
                       generateRefreshToken([id |-> v.decoded.id, role |-> v.decoded.role],
                                            v.decoded.jti, t))

\* Variant: the role of the new access token is re-read from the users table.
refreshToken_rereadsStore(token, registry, t) ==
    IF token.form = "absent"
    THEN Response("refresh", 400, "Refresh token e obrigatorio.", token, AbsentToken, AbsentToken)
    ELSE LET v == jwtVerify(token, JWT_REFRESH_SECRET, FALSE, t) IN
         IF v.err # ""
         THEN IF v.err = "TokenExpiredError"
              THEN Response("refresh", 401, "Refresh token expirado.", token, AbsentToken, AbsentToken)
              ELSE Response("refresh", 403, "Refresh token invalido.", token, AbsentToken, AbsentToken)
         ELSE IF v.decoded.jti = NoJti \/ isBlacklisted(registry, v.decoded.jti)
         THEN Response("refresh", 401, "Refresh token invalido (revogado).", token, AbsentToken, AbsentToken)
         ELSE Response("refresh", 200, "", token,
                       generateAccessToken([id |-> v.decoded.id,
                                            role |-> UserById(users, v.decoded.id).role,
                                            username |-> "N/A"], t),
                       AbsentToken)

\* Variant: the registry is consulted before the expiry.
refreshToken_revocationFirst(token, registry, t) ==
    IF token.form = "absent"
    THEN Response("refresh", 400, "Refresh token e obrigatorio.", token, AbsentToken, AbsentToken)
    ELSE LET v == jwtVerify(token, JWT_REFRESH_SECRET, TRUE, t) IN
         IF v.err # ""
         THEN Response("refresh", 403, "Refresh token invalido.", token, AbsentToken, AbsentToken)
         ELSE IF v.decoded.jti = NoJti \/ isBlacklisted(registry, v.decoded.jti)
         THEN Response("refresh", 401, "Refresh token invalido (revogado).", token, AbsentToken, AbsentToken)
         ELSE IF t >= v.decoded.exp
         THEN Response("refresh", 401, "Refresh token expirado.", token, AbsentToken, AbsentToken)
         ELSE Response("refresh", 200, "", token,
                       generateAccessToken([id |-> v.decoded.id, role |-> v.decoded.role,
                                            username |-> "N/A"], t),
                       AbsentToken)

\* refreshToken controller: the response for a request body token.
refreshToken(token, registry, t) ==
    IF token.form = "absent"
    THEN Response("refresh", 400, "Refresh token e obrigatorio.", token, AbsentToken, AbsentToken)
    ELSE LET v == jwtVerify(token, JWT_REFRESH_SECRET, FALSE, t) IN
         IF v.err # ""
         THEN IF v.err = "TokenExpiredError"
              THEN Response("refresh", 401, "Refresh token expirado.", token, AbsentToken, AbsentToken)
              ELSE Response("refresh", 403, "Refresh token invalido.", token, AbsentToken, AbsentToken)
         ELSE IF v.decoded.jti = NoJti \/ isBlacklisted(registry, v.decoded.jti)
         THEN Response("refresh", 401, "Refresh token invalido (revogado).", token, AbsentToken, AbsentToken)
         ELSE Response("refresh", 200, "", token,
                       generateAccessToken([id |-> v.decoded.id, role |-> v.decoded.role,
                                            username |-> "N/A"], t),
                       AbsentToken)

\* Variant: an invalid token is answered like refresh answers it.
logoutUser_rejectInvalid(token, t) ==
    LET v == jwtVerify(token, JWT_REFRESH_SECRET, TRUE, t) IN
    IF v.err # ""
    THEN [res |-> Response("logout", 403, "Refresh token invalido.", token, AbsentToken, AbsentToken),
          revoke |-> NoJti]
    ELSE [res |-> Response("logout", 200, "Logout bem-sucedido!", token, AbsentToken, AbsentToken),
          revoke |-> v.decoded.jti]

\* Variant: the verification does not ignore the expiry.
logoutUser_honourExpiry(token, t) ==
    IF token.form = "absent"
    THEN [res |-> Response("logout", 400, "Refresh token e obrigatorio para logout.",
                           token, AbsentToken, AbsentToken),
          revoke |-> NoJti]
    ELSE LET v == jwtVerify(token, JWT_REFRESH_SECRET, FALSE, t) IN
         IF v.err # "" /\ v.err # "TokenExpiredError"
         THEN [res |-> Response("logout", 200, "Logout realizado (token invalido).",
                                token, AbsentToken, AbsentToken),
               revoke |-> NoJti]
         ELSE IF v.decoded.jti # NoJti
         THEN [res |-> Response("logout", 200, "Logout bem-sucedido!", token, AbsentToken, AbsentToken),
               revoke |-> v.decoded.jti]
         ELSE [res |-> Response("logout", 200, "Logout processado.", token, AbsentToken, AbsentToken),
               revoke |-> NoJti]

\* Variant: the token is decoded without verifying its signature.
logoutUser_decodeOnly(token, t) ==
    IF token.form = "absent"
    THEN [res |-> Response("logout", 400, "Refresh token e obrigatorio para logout.",
                           token, AbsentToken, AbsentToken),
          revoke |-> NoJti]
    ELSE IF token.form # "jwt"
    THEN [res |-> Response("logout", 200, "Logout realizado (token invalido).",
                           token, AbsentToken, AbsentToken),
          revoke |-> NoJti]
    ELSE IF token.claims.jti # NoJti
    THEN [res |-> Response("logout", 200, "Logout bem-sucedido!", token, AbsentToken, AbsentToken),
          revoke |-> token.claims.jti]
    ELSE [res |-> Response("logout", 200, "Logout processado.", token, AbsentToken, AbsentToken),
          revoke |-> NoJti]

\* logoutUser controller: the response and the jti it blacklists (NoJti: none).
logoutUser(token, t) ==
    IF token.form = "absent"
    THEN [res |-> Response("logout", 400, "Refresh token e obrigatorio para logout.",
                           token, AbsentToken, AbsentToken),
          revoke |-> NoJti]
    ELSE LET v == jwtVerify(token, JWT_REFRESH_SECRET, TRUE, t) IN
         IF v.err # "" /\ v.err # "TokenExpiredError"
         THEN [res |-> Response("logout", 200, "Logout realizado (token invalido).",
                                token, AbsentToken, AbsentToken),
               revoke |-> NoJti]
         ELSE IF v.decoded.jti # NoJti
         THEN [res |-> Response("logout", 200, "Logout bem-sucedido!", token, AbsentToken, AbsentToken),
               revoke |-> v.decoded.jti]
         ELSE [res |-> Response("logout", 200, "Logout processado.", token, AbsentToken, AbsentToken),
               revoke |-> NoJti]

\* handleTokenVerification: status of the middleware for a bearer token
\* (200 stands for next()).
handleTokenVerification(v, registry, checkBlacklist) ==
    IF v.err # ""
    THEN IF v.err = "TokenExpiredError" THEN [status |-> 401, message |-> "Token expirado."]
         ELSE [status |-> 403, message |-> "Token invalido."]
    ELSE IF checkBlacklist /\ v.decoded.jti # NoJti /\ isBlacklisted(registry, v.decoded.jti)
    THEN [status |-> 401, message |-> "Token invalido (revogado)."]
    ELSE [status |-> 200, message |-> ""]

\* verifyToken: Authorization header, then jwt.verify, then the handler.
verifyToken(token, secret, checkBlacklist, registry, t) ==
    IF token.form = "absent"
    THEN [status |-> 401, message |-> "Acesso nao autorizado. Token ausente ou formato invalido."]
    ELSE handleTokenVerification(jwtVerify(token, secret, FALSE, t), registry, checkBlacklist)

\* Variant: the bearer token is verified under the refresh secret.
verifyAccessToken_refreshSecret(token, registry, t) ==
    verifyToken(token, JWT_REFRESH_SECRET, FALSE, registry, t)

verifyAccessToken(token, registry, t) == verifyToken(token, JWT_SECRET, FALSE, registry, t)

\* Variant: any role defined in the token is let through.
verifyRoles_anyRole(decoded, roles) ==
    IF decoded.role = ""
    THEN [status |-> 403, message |-> "Acesso proibido. Papel do usuario nao definido no token."]
    ELSE [status |-> 200, message |-> ""]

\* verifyRoles(allowedRoles) applied to req.user (200 stands for next()).
verifyRoles(decoded, roles) ==
    IF decoded.role = ""
    THEN [status |-> 403, message |-> "Acesso proibido. Papel do usuario nao definido no token."]
    ELSE IF decoded.role \notin roles
    THEN [status |-> 403, message |-> "Acesso proibido. Permissoes insuficientes."]
    ELSE [status |-> 200, message |-> ""]

\* router.use(verifyAccessToken, verifyRoles('admin')) of the admin router.
adminGate(token, registry, t) ==
    LET v == verifyAccessToken(token, registry, t) IN
    IF v.status # 200 THEN v ELSE verifyRoles(token.claims, {"admin"})

\* createUserByAdminValidationRules on role: optional, and not blank if supplied.
createUserByAdminValidation(role) ==
    IF role = " " THEN "Papel (role) nao pode ser vazio se fornecido." ELSE ""

\* generateInviteCodeValidationRules: optional, isInt in 1..20.
generateInviteCodeValidation(quantity) ==
    IF quantity # NoQuantity /\ (quantity < 1 \/ quantity > MaxQuantity)
    THEN "Quantidade deve ser um numero entre 1 e 20." ELSE ""

\* Variant: a body without quantity asks for a full batch.
parseQuantity_defaultMax(quantity) ==
    IF quantity = NoQuantity \/ quantity = 0 THEN MaxQuantity ELSE quantity

\* parseInt(req.body.quantity || '1') || 1
parseQuantity(quantity) == IF quantity = NoQuantity \/ quantity = 0 THEN 1 ELSE quantity

\* ---------------------------------------------------------------- tokens a client can present
Forgeries(held) ==
    LET refreshTokens == {tk \in held : tk.claims.jti # NoJti} IN
    {[form |-> "jwt", claims |-> tk.claims, sig |-> MAC("attacker", tk.claims)] : tk \in refreshTokens}
    \cup {[form |-> "jwt", claims |-> [tk.claims EXCEPT !.exp = tk.claims.exp + MaxTime + 1],
           sig |-> tk.sig] : tk \in refreshTokens}

Presentable == tokens \cup Forgeries(tokens) \cup {AbsentToken, NotJwtToken, GarbledToken}

\* ----------------------------------------------------------------- Init
SeedAdmin == [id |-> 1, username |-> ADMIN_USERNAME,
              passwordHash |-> bcryptHash(ADMIN_PASSWORD), role |-> ADMIN_ROLE]

IdleReq == [op |-> "none", pc |-> "idle", username |-> "", password |-> "", role |-> "",
            inviteCode |-> "", newUser |-> NoUser, status |-> 0, message |-> "",
            resRole |-> "", adminUserId |-> NoUser, bodyQuantity |-> NoQuantity,
            quantity |-> 0, attempts |-> 0, codes |-> {}]

Init ==
    /\ JWT_SECRET \in {"", "k1"}
    /\ JWT_REFRESH_SECRET \in Secrets
    /\ phase = "boot"
    /\ now = 0
    /\ users = {SeedAdmin}
    /\ nextUserId = 2
    /\ invite_codes = [c \in KnownCodes |-> [is_used |-> FALSE, created_by |-> 1, used_by |-> NoUser]]
    /\ blacklistedTokens = {}
    /\ nextJti = 1
    /\ tokens = {}
    /\ loggedOut = {}
    /\ resp = NoResponse
    /\ reqs = [i \in 1..MaxReq |-> IdleReq]

\* -------------------------------------------------------------- actions
\* Module load of the controller and the middleware: exit(1) when a secret
\* is missing, otherwise the server starts listening.
StartupCheck(accessSecret, refreshSecret) ==
    IF accessSecret = "" \/ refreshSecret = "" THEN "exited" ELSE "running"

Startup ==
    /\ phase = "boot"
    /\ phase' = StartupCheck(JWT_SECRET, JWT_REFRESH_SECRET)
    /\ UNCHANGED <<JWT_SECRET, JWT_REFRESH_SECRET, now, users, nextUserId, invite_codes,
                   blacklistedTokens, nextJti, tokens, loggedOut, resp, reqs>>

Tick ==
    /\ phase = "running"
    /\ resp = NoResponse
    /\ now < MaxTime
    /\ now' = now + 1
    /\ UNCHANGED <<JWT_SECRET, JWT_REFRESH_SECRET, phase, users, nextUserId, invite_codes,
                   blacklistedTokens, nextJti, tokens, loggedOut, resp, reqs>>

\* res.status(...).json(...) has been written out: the single-turn handler
\* is over and the event loop takes the next request.
SendResponse ==
    /\ resp # NoResponse
    /\ resp' = NoResponse
    /\ UNCHANGED <<JWT_SECRET, JWT_REFRESH_SECRET, phase, now, users, nextUserId, invite_codes,
                   blacklistedTokens, nextJti, tokens, loggedOut, reqs>>

\* Variant: a successful login revokes the refresh tokens issued to the
\* user before (one session per user).
LoginUser_singleSession(username, password) ==
    /\ phase = "running"
    /\ resp = NoResponse
    /\ LET res == loginUser(users, username, password, nextJti, now) IN
       /\ res.status = 200 => nextJti <= MaxLogins
       /\ resp' = res
       /\ tokens' = IF res.status = 200 THEN tokens \cup {res.accessToken, res.refreshToken}
                    ELSE tokens
       /\ nextJti' = IF res.status = 200 THEN nextJti + 1 ELSE nextJti
       /\ blacklistedTokens' =
             IF res.status = 200
             THEN blacklistedTokens \cup
                  {tk.claims.jti : tk \in {h \in tokens : h.claims.jti # NoJti
                                                        /\ h.claims.id = res.refreshToken.claims.id}}
             ELSE blacklistedTokens
    /\ UNCHANGED <<JWT_SECRET, JWT_REFRESH_SECRET, phase, now, users, nextUserId, invite_codes,
                   loggedOut, reqs>>

\* POST /login: loginValidationRules (both fields non-empty), then the controller.
LoginUser(username, password) ==
    /\ phase = "running"
    /\ resp = NoResponse
    /\ LET res == loginUser(users, username, password, nextJti, now) IN
       /\ res.status = 200 => nextJti <= MaxLogins
       /\ resp' = res
       /\ tokens' = IF res.status = 200 THEN tokens \cup {res.accessToken, res.refreshToken}
                    ELSE tokens
       /\ nextJti' = IF res.status = 200 THEN nextJti + 1 ELSE nextJti
    /\ UNCHANGED <<JWT_SECRET, JWT_REFRESH_SECRET, phase, now, users, nextUserId, invite_codes,
                   blacklistedTokens, loggedOut, reqs>>

\* POST /refresh: body validation, then the controller.
RefreshToken(token) ==
    /\ phase = "running"
    /\ resp = NoResponse
    /\ LET invalid == refreshTokenValidation(token)
           res == IF invalid # ""
                  THEN Response("refresh", 400, invalid, token, AbsentToken, AbsentToken)
                  ELSE refreshToken(token, blacklistedTokens, now)
       IN /\ resp' = res
          /\ tokens' = IF res.status = 200 THEN tokens \cup {res.accessToken} ELSE tokens
    /\ UNCHANGED <<JWT_SECRET, JWT_REFRESH_SECRET, phase, now, users, nextUserId, invite_codes,
                   blacklistedTokens, nextJti, loggedOut, reqs>>

\* POST /logout: body validation, then the controller.
LogoutUser(token) ==
    /\ phase = "running"
    /\ resp = NoResponse
    /\ LET invalid == refreshTokenValidation(token)
           out == IF invalid # ""
                  THEN [res |-> Response("logout", 400, invalid, token, AbsentToken, AbsentToken),
                        revoke |-> NoJti]
                  ELSE logoutUser(token, now)
       IN /\ resp' = out.res
          /\ blacklistedTokens' = addToBlacklist(blacklistedTokens, out.revoke)
    /\ loggedOut' = IF token \in tokens /\ token.claims.jti # NoJti
                    THEN loggedOut \cup {token} ELSE loggedOut
    /\ UNCHANGED <<JWT_SECRET, JWT_REFRESH_SECRET, phase, now, users, nextUserId, invite_codes,
                   nextJti, tokens, reqs>>

\* GET /profile: verifyAccessToken, then getUserProfile.
GetUserProfile(token) ==
    /\ phase = "running"
    /\ resp = NoResponse
    /\ LET v == verifyAccessToken(token, blacklistedTokens, now) IN
       resp' = IF v.status = 200
               THEN Response("profile", 200, "Dados do perfil obtidos com sucesso.",
                             token, AbsentToken, AbsentToken)
               ELSE Response("profile", v.status, v.message, token, AbsentToken, AbsentToken)
    /\ UNCHANGED <<JWT_SECRET, JWT_REFRESH_SECRET, phase, now, users, nextUserId, invite_codes,
                   blacklistedTokens, nextJti, tokens, loggedOut, reqs>>

\* ---------------------------------------------------------- registerUser
\* Variant: the role of the request body is handed to addUser.
registerRole_fromBody(bodyRole) == bodyRole

\* The role registerUser hands to addUser, whatever the request body carries.
registerRole(bodyRole) == "user"

Done(req, status, message) == [req EXCEPT !.pc = "done", !.status = status, !.message = message]

\* POST /register up to the first store call: db.findInviteCode.
RegisterFind(i, username, bodyRole, inviteCode) ==
    /\ phase = "running"
    /\ resp = NoResponse
    /\ reqs[i].pc = "idle"
    /\ i > 1 => reqs[i - 1].pc # "idle"
    /\ LET req == [IdleReq EXCEPT !.op = "register", !.username = username,
                                  !.password = RegisterPassword, !.role = bodyRole,
                                  !.inviteCode = inviteCode]
           codeData == findInviteCode(invite_codes, inviteCode)
       IN reqs' = [reqs EXCEPT ![i] =
                     IF codeData = {} THEN Done(req, 400, "Codigo de convite invalido.")
                     ELSE IF (CHOOSE c \in codeData : TRUE).is_used
                     THEN Done(req, 400, "Codigo de convite ja utilizado.")
                     ELSE [req EXCEPT !.pc = "addUser"]]
    /\ UNCHANGED <<JWT_SECRET, JWT_REFRESH_SECRET, phase, now, users, nextUserId, invite_codes,
                   blacklistedTokens, nextJti, tokens, loggedOut, resp>>

\* Variant: the invite code is consumed before the user is inserted.
RegisterAddUser_marksFirst(i) ==
    /\ resp = NoResponse
    /\ reqs[i].op = "register" /\ reqs[i].pc = "addUser"
    /\ LET req == reqs[i]
           upd == markInviteCodeAsUsed(invite_codes, req.inviteCode, nextUserId)
           ins == addUser(users, nextUserId, req.username, bcryptHash(req.password),
                          registerRole(req.role))
       IN /\ invite_codes' = upd.codes
          /\ users' = ins.rows
          /\ nextUserId' = nextUserId + 1
          /\ reqs' = [reqs EXCEPT ![i] =
                        IF ins.error = "Nome de usuario ja existe."
                        THEN Done(req, 409, "Nome de usuario ja esta em uso.")
                        ELSE [req EXCEPT !.pc = "mark", !.newUser = ins.newUser]]
    /\ UNCHANGED <<JWT_SECRET, JWT_REFRESH_SECRET, phase, now,
                   blacklistedTokens, nextJti, tokens, loggedOut, resp>>

\* bcrypt.hash, then db.addUser; a unique violation is answered 409.
RegisterAddUser(i) ==
    /\ resp = NoResponse
    /\ reqs[i].op = "register" /\ reqs[i].pc = "addUser"
    /\ LET req == reqs[i]
           ins == addUser(users, nextUserId, req.username, bcryptHash(req.password),
                          registerRole(req.role))
       IN /\ users' = ins.rows
          /\ nextUserId' = nextUserId + 1
          /\ reqs' = [reqs EXCEPT ![i] =
                        IF ins.error = "Nome de usuario ja existe."
                        THEN Done(req, 409, "Nome de usuario ja esta em uso.")
                        ELSE [req EXCEPT !.pc = "mark", !.newUser = ins.newUser]]
    /\ UNCHANGED <<JWT_SECRET, JWT_REFRESH_SECRET, phase, now, invite_codes,
                   blacklistedTokens, nextJti, tokens, loggedOut, resp>>

\* db.markInviteCodeAsUsed, then the 201 or the 500 response.
RegisterMark(i) ==
    /\ resp = NoResponse
    /\ reqs[i].op = "register" /\ reqs[i].pc = "mark"
    /\ LET req == reqs[i]
           upd == markInviteCodeAsUsed(invite_codes, req.inviteCode, req.newUser)
       IN /\ invite_codes' = upd.codes
          /\ reqs' = [reqs EXCEPT ![i] =
                        IF ~upd.marked
                        THEN Done(req, 500, "Erro ao finalizar registro. Contate o suporte.")
                        ELSE [Done(req, 201, "Usuario registrado com sucesso!")
                                 EXCEPT !.resRole = UserById(users, req.newUser).role]]
    /\ UNCHANGED <<JWT_SECRET, JWT_REFRESH_SECRET, phase, now, users, nextUserId,
                   blacklistedTokens, nextJti, tokens, loggedOut, resp>>

\* ------------------------------------------------------- admin controller
\* Variant: createUserByAdmin accepts whatever role the body carries.
createUserByAdminRoleCheck_anyRole(role) == ""

\* createUserByAdmin: the error for a supplied role outside allowedRoles.
createUserByAdminRoleCheck(role) ==
    IF role # "" /\ role \notin allowedRoles THEN "Papel (role) invalido." ELSE ""

\* role || 'user'
createUserByAdminRole(role) == IF role # "" THEN role ELSE "user"

\* The response of the admin router's middleware and of the route's body
\* validation (NoResponse: the request reaches the controller).
AdminRejected(op, token, invalid) ==
    LET gate == adminGate(token, blacklistedTokens, now) IN
    IF gate.status # 200
    THEN Response(op, gate.status, gate.message, token, AbsentToken, AbsentToken)
    ELSE IF invalid # ""
    THEN Response(op, 400, invalid, token, AbsentToken, AbsentToken)
    ELSE NoResponse

\* POST /users up to the first store call: the admin gate, body validation,
\* the role check of the controller, then db.findUserByUsername.
AdminCreateFind(i, token, username, role) ==
    /\ phase = "running"
    /\ resp = NoResponse
    /\ reqs[i].pc = "idle"
    /\ i > 1 => reqs[i - 1].pc # "idle"
    /\ LET rejected == AdminRejected("adminCreate", token, createUserByAdminValidation(role))
           badRole == createUserByAdminRoleCheck(role)
           req == [IdleReq EXCEPT !.op = "adminCreate", !.username = username,
                                  !.password = RegisterPassword, !.role = role,
                                  !.adminUserId = token.claims.id]
       IN IF rejected # NoResponse
          THEN resp' = rejected /\ reqs' = reqs
          ELSE IF badRole # ""
          THEN /\ resp' = Response("adminCreate", 400, badRole, token, AbsentToken, AbsentToken)
               /\ reqs' = reqs
          ELSE /\ resp' = resp
               /\ reqs' = [reqs EXCEPT ![i] =
                             IF findUserByUsername(users, username) # {}
                             THEN Done(req, 409, "Nome de usuario ja esta em uso.")
                             ELSE [req EXCEPT !.pc = "addUser"]]
    /\ UNCHANGED <<JWT_SECRET, JWT_REFRESH_SECRET, phase, now, users, nextUserId, invite_codes,
                   blacklistedTokens, nextJti, tokens, loggedOut>>

\* bcrypt.hash, then db.addUser with role || 'user'; a unique violation is
\* answered 409.
AdminCreateAddUser(i) ==
    /\ resp = NoResponse
    /\ reqs[i].op = "adminCreate" /\ reqs[i].pc = "addUser"
    /\ LET req == reqs[i]
           ins == addUser(users, nextUserId, req.username, bcryptHash(req.password),
                          createUserByAdminRole(req.role))
       IN /\ users' = ins.rows
          /\ nextUserId' = nextUserId + 1
          /\ reqs' = [reqs EXCEPT ![i] =
                        IF ins.error = "Nome de usuario ja existe."
                        THEN Done(req, 409, "Nome de usuario ja esta em uso.")
                        ELSE [Done(req, 201, "Usuario criado com sucesso pelo administrador!")
                                 EXCEPT !.newUser = ins.newUser,
                                        !.resRole = UserById(ins.rows, ins.newUser).role]]
    /\ UNCHANGED <<JWT_SECRET, JWT_REFRESH_SECRET, phase, now, invite_codes,
                   blacklistedTokens, nextJti, tokens, loggedOut, resp>>

\* POST /invite-codes up to the loop: the admin gate, body validation and
\* the quantity check of the controller.
AdminGenerateStart(i, token, quantity) ==
    /\ phase = "running"
    /\ resp = NoResponse
    /\ reqs[i].pc = "idle"
    /\ i > 1 => reqs[i - 1].pc # "idle"
    /\ LET rejected == AdminRejected("adminGenerate", token, generateInviteCodeValidation(quantity))
           q == parseQuantity(quantity)
       IN IF rejected # NoResponse
          THEN resp' = rejected /\ reqs' = reqs
          ELSE IF q <= 0 \/ q > MaxQuantity
          THEN /\ resp' = Response("adminGenerate", 400, "Quantidade invalida.",
                                    token, AbsentToken, AbsentToken)
               /\ reqs' = reqs
          ELSE /\ resp' = resp
               /\ reqs' = [reqs EXCEPT ![i] =
                             [IdleReq EXCEPT !.op = "adminGenerate", !.pc = "generate",
                                             !.adminUserId = token.claims.id,
                                             !.bodyQuantity = quantity, !.quantity = q]]
    /\ UNCHANGED <<JWT_SECRET, JWT_REFRESH_SECRET, phase, now, users, nextUserId, invite_codes,
                   blacklistedTokens, nextJti, tokens, loggedOut>>

\* Variant: the loop retries until the batch is full, with no attempt limit.
AdminGenerateAdd_unboundedRetry(i, code) ==
    /\ resp = NoResponse
    /\ reqs[i].op = "adminGenerate" /\ reqs[i].pc = "generate"
    /\ LET req == reqs[i]
           ins == addInviteCode(invite_codes, code, req.adminUserId)
           generatedCodes == IF ins.error = "" THEN req.codes \cup {code} ELSE req.codes
           next == [req EXCEPT !.attempts = req.attempts + 1, !.codes = generatedCodes]
       IN /\ invite_codes' = ins.codes
          /\ reqs' = [reqs EXCEPT ![i] =
                        IF Cardinality(generatedCodes) < req.quantity
                        THEN next
                        ELSE Done(next, 201, "codigo(s) de convite gerado(s) com sucesso.")]
    /\ UNCHANGED <<JWT_SECRET, JWT_REFRESH_SECRET, phase, now, users, nextUserId,
                   blacklistedTokens, nextJti, tokens, loggedOut, resp>>

\* One iteration of the loop: a random code, db.addInviteCode, and the
\* response once the loop condition fails.
AdminGenerateAdd(i, code) ==
    /\ resp = NoResponse
    /\ reqs[i].op = "adminGenerate" /\ reqs[i].pc = "generate"
    /\ LET req == reqs[i]
           ins == addInviteCode(invite_codes, code, req.adminUserId)
           generatedCodes == IF ins.error = "" THEN req.codes \cup {code} ELSE req.codes
           next == [req EXCEPT !.attempts = req.attempts + 1, !.codes = generatedCodes]
       IN /\ invite_codes' = ins.codes
          /\ reqs' = [reqs EXCEPT ![i] =
                        IF Cardinality(generatedCodes) < req.quantity
                           /\ next.attempts < req.quantity * 2
                        THEN next
                        ELSE IF generatedCodes = {}
                        THEN Done(next, 500, "Nao foi possivel gerar codigos de convite.")
                        ELSE Done(next, 201, "codigo(s) de convite gerado(s) com sucesso.")]
    /\ UNCHANGED <<JWT_SECRET, JWT_REFRESH_SECRET, phase, now, users, nextUserId,
                   blacklistedTokens, nextJti, tokens, loggedOut, resp>>

\* Bearer tokens a client can send: what it was handed, a held token with
\* its role claim rewritten or its exp moved out (signature kept), nothing,
\* or a string that is no JWT.
BearerForgeries(held) ==
    {[tk EXCEPT !.claims.role = "admin"] : tk \in held}
    \cup {[tk EXCEPT !.claims.exp = tk.claims.exp + MaxTime + 1] : tk \in held}

Bearers == tokens \cup BearerForgeries(tokens) \cup {AbsentToken, GarbledToken}

NextSession ==
    \/ Startup
    \/ Tick
    \/ SendResponse
    \/ \E username \in Usernames, password \in Passwords : LoginUser(username, password)
    \/ \E token \in Presentable : RefreshToken(token)
    \/ \E token \in Presentable : LogoutUser(token)
    \/ \E token \in Presentable : GetUserProfile(token)

\* The session protocol: startup, clock, login, refresh, logout, profile.
Spec == Init /\ [][NextSession]_vars

NextRegister ==
    \/ Startup
    \/ \E i \in 1..MaxReq, username \in RegisterUsernames, bodyRole \in BodyRoles,
          inviteCode \in PresentedCodes : RegisterFind(i, username, bodyRole, inviteCode)
    \/ \E i \in 1..MaxReq : RegisterAddUser(i)
    \/ \E i \in 1..MaxReq : RegisterMark(i)

\* Concurrent registrations against the store.
InitRegister == Init /\ JWT_SECRET = "k1" /\ JWT_REFRESH_SECRET = "k2"

SpecRegister == InitRegister /\ [][NextRegister]_vars

NextAdmin ==
    \/ Startup
    \/ SendResponse
    \/ \E username \in Usernames, password \in Passwords : LoginUser(username, password)
    \/ \E i \in 1..MaxReq, token \in Bearers, username \in AdminUsernames,
          role \in AdminBodyRoles : AdminCreateFind(i, token, username, role)
    \/ \E i \in 1..MaxReq : AdminCreateAddUser(i)
    \/ \E i \in 1..MaxReq, token \in Bearers, quantity \in {NoQuantity, MaxQuantity + 1} :
          AdminGenerateStart(i, token, quantity)
    \/ \E i \in 1..MaxReq : AdminGenerateAdd(i, "c3")

\* The admin routes next to login and registration.
\* An access token the seeded admin was handed in an earlier process
\* lifetime and that has expired since (tokens outlive the process).
StaleAdminToken(secret) ==
    jwtSign([id |-> SeedAdmin.id, username |-> SeedAdmin.username, role |-> SeedAdmin.role],
            secret, JWT_EXPIRES_IN, NoJti, 0 - JWT_EXPIRES_IN)

InitAdmin ==
    /\ JWT_SECRET = "k1"
    /\ JWT_REFRESH_SECRET \in {"k1", "k2"}
    /\ phase = "boot"
    /\ now = 0
    /\ users = {SeedAdmin}
    /\ nextUserId = 2
    /\ invite_codes = [c \in KnownCodes |-> [is_used |-> FALSE, created_by |-> 1, used_by |-> NoUser]]
    /\ blacklistedTokens = {}
    /\ nextJti = 1
    /\ tokens = {StaleAdminToken(JWT_SECRET)}
    /\ loggedOut = {}
    /\ resp = NoResponse
    /\ reqs = [i \in 1..MaxReq |-> IdleReq]

SpecAdmin == InitAdmin /\ [][NextAdmin]_vars

InvitePresentedCodes == {"c1", "c3"}

NextInvite ==
    \/ Startup
    \/ SendResponse
    \/ \E password \in Passwords : LoginUser(ADMIN_USERNAME, password)
    \/ \E i \in 1..MaxReq, token \in Bearers, quantity \in Quantities :
          AdminGenerateStart(i, token, quantity)
    \/ \E i \in 1..MaxReq, code \in RandomCodes : AdminGenerateAdd(i, code)
    \/ \E i \in 1..MaxReq, username \in RegisterUsernames, inviteCode \in InvitePresentedCodes :
          RegisterFind(i, username, "", inviteCode)
    \/ \E i \in 1..MaxReq : RegisterAddUser(i)
    \/ \E i \in 1..MaxReq : RegisterMark(i)

\* Invite codes from generation to consumption.
SpecInvite == InitRegister /\ [][NextInvite]_vars

\* The event loop resumes every handler that awaits a store call, and every
\* written response leaves.
SpecInviteFair ==
    /\ SpecInvite
    /\ WF_vars(SendResponse)
    /\ \A i \in 1..MaxReq : SF_vars(\E code \in RandomCodes : AdminGenerateAdd(i, code))

\* A user row registered in an earlier process lifetime (the store outlives
\* the process): any role, and a username that may be the literal 'N/A'.
StoredUsernames == {"alice", "N/A"}
StoredUsers == {[id |-> 2, username |-> username, passwordHash |-> bcryptHash(RegisterPassword),
                 role |-> role] : username \in StoredUsernames, role \in allowedRoles}

InitTokens ==
    /\ JWT_SECRET = "k1"
    /\ JWT_REFRESH_SECRET = "k2"
    /\ phase = "boot"
    /\ now = 0
    /\ \E u \in StoredUsers : users = {SeedAdmin, u}
    /\ nextUserId = 3
    /\ invite_codes = [c \in KnownCodes |-> [is_used |-> FALSE, created_by |-> 1, used_by |-> NoUser]]
    /\ blacklistedTokens = {}
    /\ nextJti = 1
    /\ tokens = {}
    /\ loggedOut = {}
    /\ resp = NoResponse
    /\ reqs = [i \in 1..MaxReq |-> IdleReq]

NextTokens ==
    \/ Startup
    \/ Tick
    \/ SendResponse
    \/ \E username \in {ADMIN_USERNAME} \cup StoredUsernames, password \in Passwords :
          LoginUser(username, password)
    \/ \E token \in tokens : RefreshToken(token)

\* Token issuance for stored users of every role: login and refresh.
SpecTokens == InitTokens /\ [][NextTokens]_vars

\* The users table lives in a PostgreSQL database the API does not own
\* alone: another database client rewrites the "role" column of a row.
StoreRoleChange(id, role) ==
    /\ resp = NoResponse
    /\ \E u \in users :
          /\ u.id = id /\ u.role # role
          /\ users' = (users \ {u}) \cup {[u EXCEPT !.role = role]}
    /\ UNCHANGED <<JWT_SECRET, JWT_REFRESH_SECRET, phase, now, nextUserId, invite_codes,
                   blacklistedTokens, nextJti, tokens, loggedOut, resp, reqs>>

NextRoleChange ==
    \/ Startup
    \/ Tick
    \/ SendResponse
    \/ \E username \in StoredUsernames, password \in Passwords :
          LoginUser(username, password)
    \/ \E token \in tokens : RefreshToken(token)
    \/ \E u \in users \ {SeedAdmin}, role \in allowedRoles : StoreRoleChange(u.id, role)

\* Token issuance while stored roles change underneath.
SpecRoleChange == InitTokens /\ [][NextRoleChange]_vars

\* Variant: the registry survives the restart.
Restart_keepsRegistry ==
    /\ phase = "running"
    /\ resp = NoResponse
    /\ phase' = "boot"
    /\ UNCHANGED <<JWT_SECRET, JWT_REFRESH_SECRET, now, users, nextUserId, invite_codes,
                   blacklistedTokens, nextJti, tokens, loggedOut, resp, reqs>>

\* The process is stopped and started again: config/tokenBlacklist.js is
\* loaded anew with "new Set()"; the database, the environment and the
\* tokens clients hold are what they were.
Restart ==
    /\ phase = "running"
    /\ resp = NoResponse
    /\ phase' = "boot"
    /\ blacklistedTokens' = {}
    /\ UNCHANGED <<JWT_SECRET, JWT_REFRESH_SECRET, now, users, nextUserId, invite_codes,
                   nextJti, tokens, loggedOut, resp, reqs>>

NextRestart ==
    \/ Startup
    \/ Tick
    \/ SendResponse
    \/ \E username \in Usernames, password \in Passwords : LoginUser(username, password)
    \/ \E token \in Presentable : RefreshToken(token)
    \/ \E token \in Presentable : LogoutUser(token)
    \/ Restart

\* The session protocol across process restarts.
SpecRestart == InitRegister /\ [][NextRestart]_vars

\* The deployment with two different secrets.
InitRoles ==
    /\ JWT_SECRET = "k1"
    /\ JWT_REFRESH_SECRET = "k2"
    /\ phase = "boot"
    /\ now = 0
    /\ users = {SeedAdmin}
    /\ nextUserId = 2
    /\ invite_codes = [c \in KnownCodes |-> [is_used |-> FALSE, created_by |-> 1, used_by |-> NoUser]]
    /\ blacklistedTokens = {}
    /\ nextJti = 1
    /\ tokens = {StaleAdminToken(JWT_SECRET)}
    /\ loggedOut = {}
    /\ resp = NoResponse
    /\ reqs = [i \in 1..MaxReq |-> IdleReq]

NextRoles ==
    \/ Startup
    \/ SendResponse
    \/ \E password \in Passwords : LoginUser(ADMIN_USERNAME, password)
    \/ \E i \in 1..MaxReq, token \in Bearers, username \in AdminUsernames,
          role \in AdminBodyRoles : AdminCreateFind(i, token, username, role)
    \/ \E i \in 1..MaxReq : AdminCreateAddUser(i)
    \/ \E i \in 1..MaxReq, bodyRole \in BodyRoles : RegisterFind(i, "bob", bodyRole, "c1")
    \/ \E i \in 1..MaxReq : RegisterAddUser(i)
    \/ \E i \in 1..MaxReq : RegisterMark(i)

\* Every way a row enters the users table: the seed script, registration
\* and admin-direct creation.
SpecRoles == InitRoles /\ [][NextRoles]_vars

NextDuplicate ==
    \/ Startup
    \/ \E i \in 1..MaxReq, username \in {ADMIN_USERNAME} \cup RegisterUsernames,
          inviteCode \in KnownCodes : RegisterFind(i, username, "", inviteCode)
    \/ \E i \in 1..MaxReq : RegisterAddUser(i)
    \/ \E i \in 1..MaxReq : RegisterMark(i)

\* Registrations with taken and with free usernames.
SpecDuplicate == InitRegister /\ [][NextDuplicate]_vars

\* --------------------------------------------- failures inside the handlers
\* A JWT_EXPIRES_IN value that is neither a number of seconds nor a timespan
\* string: the controller takes process.env.JWT_EXPIRES_IN as it is.
NotATimespan == -1

\* jwt.sign throws '"expiresIn" should be a number of seconds or string
\* representing a timespan' for such an option.
signThrows(expiresIn) == expiresIn = NotATimespan

\* loginUser in a process configured with expiresIn: generateAccessToken
\* runs inside the try block, its exception is answered 500 by the catch.
loginUserUnder(expiresIn, rows, username, password, jwtid, t) ==
    LET res == loginUser(rows, username, password, jwtid, t) IN
    IF res.status = 200 /\ signThrows(expiresIn)
    THEN Response("login", 500, "Erro interno no servidor durante o login.",
                  AbsentToken, AbsentToken, AbsentToken)
    ELSE res

\* The handler ended without res.json(): status 0.
Unanswered(op, token) == Response(op, 0, "", token, AbsentToken, AbsentToken)

\* refreshToken in a process configured with expiresIn: generateAccessToken
\* runs inside the async callback of jwt.verify, whose rejected promise the
\* try/catch around jwt.verify does not see.
refreshTokenUnder(expiresIn, token, registry, t) ==
    LET res == refreshToken(token, registry, t) IN
    IF res.status = 200 /\ signThrows(expiresIn) THEN Unanswered("refresh", token) ELSE res

LoginUserUnder(expiresIn, username, password) ==
    /\ phase = "running"
    /\ resp = NoResponse
    /\ LET res == loginUserUnder(expiresIn, users, username, password, nextJti, now) IN
       /\ res.status = 200 => nextJti <= MaxLogins
       /\ resp' = res
       /\ tokens' = IF res.status = 200 THEN tokens \cup {res.accessToken, res.refreshToken}
                    ELSE tokens
       /\ nextJti' = IF res.status = 200 THEN nextJti + 1 ELSE nextJti
    /\ UNCHANGED <<JWT_SECRET, JWT_REFRESH_SECRET, phase, now, users, nextUserId, invite_codes,
                   blacklistedTokens, loggedOut, reqs>>

\* db.findUserByUsername throws 'Erro ao consultar o banco de dados.'.
LoginStoreFailure ==
    /\ phase = "running"
    /\ resp = NoResponse
    /\ resp' = Response("login", 500, "Erro interno no servidor durante o login.",
                        AbsentToken, AbsentToken, AbsentToken)
    /\ UNCHANGED <<JWT_SECRET, JWT_REFRESH_SECRET, phase, now, users, nextUserId, invite_codes,
                   blacklistedTokens, nextJti, tokens, loggedOut, reqs>>

\* POST /refresh in a process configured with expiresIn. When the callback
\* throws, nothing is written for request i; the unhandled rejection ends
\* the process (the default of Node 15 and later) or is only reported.
RefreshTokenUnder(expiresIn, i, token) ==
    /\ phase = "running"
    /\ resp = NoResponse
    /\ reqs[i].pc = "idle"
    /\ i > 1 => reqs[i - 1].pc # "idle"
    /\ LET invalid == refreshTokenValidation(token)
           res == IF invalid # ""
                  THEN Response("refresh", 400, invalid, token, AbsentToken, AbsentToken)
                  ELSE refreshTokenUnder(expiresIn, token, blacklistedTokens, now)
       IN IF res.status = 0
          THEN /\ reqs' = [reqs EXCEPT ![i] = [IdleReq EXCEPT !.op = "refresh",
                                                              !.pc = "unanswered"]]
               /\ phase' \in {"running", "exited"}
               /\ UNCHANGED <<resp, tokens>>
          ELSE /\ resp' = res
               /\ tokens' = IF res.status = 200 THEN tokens \cup {res.accessToken} ELSE tokens
               /\ UNCHANGED <<reqs, phase>>
    /\ UNCHANGED <<JWT_SECRET, JWT_REFRESH_SECRET, now, users, nextUserId, invite_codes,
                   blacklistedTokens, nextJti, loggedOut>>

\* db.findInviteCode throws: the catch block answers 500.
RegisterFindFailure(i, username, inviteCode) ==
    /\ phase = "running"
    /\ resp = NoResponse
    /\ reqs[i].pc = "idle"
    /\ i > 1 => reqs[i - 1].pc # "idle"
    /\ reqs' = [reqs EXCEPT ![i] =
                  Done([IdleReq EXCEPT !.op = "register", !.username = username,
                                       !.password = RegisterPassword, !.inviteCode = inviteCode],
                       500, "Erro interno no servidor ao registrar usuario.")]
    /\ UNCHANGED <<JWT_SECRET, JWT_REFRESH_SECRET, phase, now, users, nextUserId, invite_codes,
                   blacklistedTokens, nextJti, tokens, loggedOut, resp>>

\* db.addUser or db.markInviteCodeAsUsed throws an error other than the
\* unique violation: the statement wrote nothing, the catch block answers 500.
RegisterStoreFailure(i) ==
    /\ phase = "running"
    /\ resp = NoResponse
    /\ reqs[i].op = "register" /\ reqs[i].pc \in {"addUser", "mark"}
    /\ reqs' = [reqs EXCEPT ![i] =
                  Done(reqs[i], 500, "Erro interno no servidor ao registrar usuario.")]
    /\ UNCHANGED <<JWT_SECRET, JWT_REFRESH_SECRET, phase, now, users, nextUserId, invite_codes,
                   blacklistedTokens, nextJti, tokens, loggedOut, resp>>

\* A refresh token the seeded admin was handed in the process lifetime that
\* has just ended (refresh tokens outlive the process).
EarlierRefreshToken == generateRefreshToken(SeedAdmin, 1, 0)

InitResponses ==
    /\ JWT_SECRET = "k1"
    /\ JWT_REFRESH_SECRET = "k2"
    /\ phase = "boot"
    /\ now = 0
    /\ users = {SeedAdmin}
    /\ nextUserId = 2
    /\ invite_codes = [c \in KnownCodes |-> [is_used |-> FALSE, created_by |-> 1, used_by |-> NoUser]]
    /\ blacklistedTokens = {}
    /\ nextJti = 2
    /\ tokens = {EarlierRefreshToken}
    /\ loggedOut = {}
    /\ resp = NoResponse
    /\ reqs = [i \in 1..MaxReq |-> IdleReq]

NextResponses(expiresIn) ==
    \/ Startup
    \/ Tick
    \/ SendResponse
    \/ \E password \in Passwords : LoginUserUnder(expiresIn, ADMIN_USERNAME, password)
    \/ LoginStoreFailure
    \/ \E i \in 1..MaxReq, token \in Presentable : RefreshTokenUnder(expiresIn, i, token)
    \/ \E token \in Presentable : LogoutUser(token)
    \/ \E i \in 1..MaxReq : RegisterFind(i, "alice", "", "c1")
    \/ \E i \in 1..MaxReq : RegisterFindFailure(i, "alice", "c1")
    \/ \E i \in 1..MaxReq : RegisterAddUser(i)
    \/ \E i \in 1..MaxReq : RegisterMark(i)
    \/ \E i \in 1..MaxReq : RegisterStoreFailure(i)

\* The four handlers with store failures, JWT_EXPIRES_IN being a timespan.
SpecResponses == InitResponses /\ [][NextResponses(JWT_EXPIRES_IN)]_vars

\* The same in a process started with a JWT_EXPIRES_IN that is no timespan.
SpecMisconfigured == InitResponses /\ [][NextResponses(NotATimespan)]_vars

\* =================================================================== claims
Revoked == "Refresh token invalido (revogado)."
Expired == "Refresh token expirado."
Invalid == "Refresh token invalido."

SignedUnder(token, secret) == token.form = "jwt" /\ token.sig = MAC(secret, token.claims)

IssuedRefreshTokens == {tk \in tokens : tk.claims.jti # NoJti}
IssuedAccessTokens == {tk \in tokens : tk.claims.jti = NoJti}

\* C1 (as claimed): once logout(R) has returned for a refresh token R issued
\* by login, every later refresh(R) answers 401 'revoked' and carries no
\* access token.
C1_LogoutBlocksRefresh_AsClaimed ==
    (resp.op = "refresh" /\ resp.input \in loggedOut)
        => (resp.status = 401 /\ resp.message = Revoked /\ resp.accessToken = AbsentToken)

\* C1 (amended): once logout(R) has returned for a refresh token R issued by
\* login, every later refresh(R) answers 401 and hands out no access token:
\* 'revoked' while R is unexpired, 'expired' once R's exp has passed.
C1_LogoutBlocksRefresh ==
    [][\A token \in loggedOut :
          RefreshToken(token) =>
              /\ resp'.status = 401
              /\ resp'.message = (IF now < token.claims.exp THEN Revoked ELSE Expired)
              /\ resp'.accessToken = AbsentToken
              /\ tokens' = tokens]_vars

C1_Witness ==
    /\ resp.op = "refresh" /\ resp.input \in loggedOut
    /\ resp.message = Revoked
    /\ \E tk \in IssuedRefreshTokens : tk # resp.input

Registers == {i \in 1..MaxReq : reqs[i].op = "register"}

\* Requests i and j are the only two requests of the run and both have been answered.
OnlyTwo(i, j) ==
    /\ i # j
    /\ reqs[i].pc = "done" /\ reqs[j].pc = "done"
    /\ \A k \in 1..MaxReq \ {i, j} : reqs[k].op = "none"

\* C2 (as claimed): of two register requests presenting the same unused
\* invite code with distinct usernames, exactly one is answered 201 and the
\* other 400 'invite code already used', and the code ends used with
\* used_by the user the winner created.
C2_InviteSingleUse_AsClaimed ==
    \A i, j \in Registers :
        (/\ OnlyTwo(i, j)
         /\ reqs[i].inviteCode = reqs[j].inviteCode /\ reqs[i].inviteCode \in KnownCodes
         /\ reqs[i].username # reqs[j].username)
        => \E w \in {i, j} :
              LET l == CHOOSE x \in {i, j} : x # w IN
              /\ reqs[w].status = 201
              /\ reqs[l].status = 400 /\ reqs[l].message = "Codigo de convite ja utilizado."
              /\ invite_codes[reqs[w].inviteCode].is_used
              /\ invite_codes[reqs[w].inviteCode].used_by = reqs[w].newUser

\* C3: every user created by a register request is stored with role 'user'
\* and reported with role 'user', whatever role the request body carried; a
\* stored user with another role is the seeded admin or was created by an
\* admin-direct request.
C3_RegisterRoleIsUser ==
    /\ \A i \in Registers :
          /\ reqs[i].newUser # NoUser => UserById(users, reqs[i].newUser).role = "user"
          /\ reqs[i].status = 201 => reqs[i].resRole = "user"
    /\ \A u \in users :
          u.role # "user" =>
              \/ u = SeedAdmin
              \/ \E i \in 1..MaxReq : reqs[i].op = "adminCreate" /\ reqs[i].newUser = u.id

C3_Witness ==
    \E i \in Registers :
        /\ reqs[i].status = 201 /\ reqs[i].role = "admin"
        /\ \E u \in users : u.id = reqs[i].newUser /\ u.username = reqs[i].username

\* C4: of two register requests with the same free username and two
\* different unused invite codes, exactly one is answered 201 and the other
\* 409 'username in use', and exactly one user with that username exists.
C4_DuplicateUsernameRace ==
    \A i, j \in Registers :
        (/\ OnlyTwo(i, j)
         /\ reqs[i].username = reqs[j].username
         /\ reqs[i].inviteCode # reqs[j].inviteCode
         /\ {reqs[i].inviteCode, reqs[j].inviteCode} \subseteq KnownCodes)
        => /\ \E w \in {i, j} :
                 LET l == CHOOSE x \in {i, j} : x # w IN
                 /\ reqs[w].status = 201
                 /\ reqs[l].status = 409 /\ reqs[l].message = "Nome de usuario ja esta em uso."
           /\ Cardinality({u \in users : u.username = reqs[i].username}) = 1

C4_Witness ==
    \E i, j \in Registers :
        /\ OnlyTwo(i, j)
        /\ reqs[i].username = reqs[j].username /\ reqs[i].inviteCode # reqs[j].inviteCode
        /\ i < j /\ reqs[i].status = 409 /\ reqs[j].status = 201
        /\ invite_codes[reqs[j].inviteCode].used_by = reqs[j].newUser
        /\ ~invite_codes[reqs[i].inviteCode].is_used

\* C5 (as claimed): logout answers with a success-shaped response for every
\* input, an absent token included.
C5_LogoutAlwaysSucceeds_AsClaimed ==
    resp.op = "logout" => resp.status = 200

\* C5 (amended): logout answers 200 for every token that is present and in
\* JWT format (valid, expired, badly signed, undecodable, without jti,
\* already revoked); an absent token or a string that is not in JWT format
\* is answered 400 and the registry is left alone.
C5_LogoutSucceedsForPresentedJwt ==
    [][\A token \in Presentable :
          LogoutUser(token) =>
              IF token.form \in {"absent", "notjwt"}
              THEN resp'.status = 400 /\ blacklistedTokens' = blacklistedTokens
              ELSE resp'.status = 200]_vars

C5_Witness ==
    /\ resp.op = "logout" /\ resp.status = 200
    /\ resp.input.form = "jwt"
    /\ ~SignedUnder(resp.input, JWT_REFRESH_SECRET)
    /\ \E tk \in loggedOut : tk.claims.exp <= now

C7_SecretSeparation_AsClaimed ==
    /\ \A tk \in tokens :
          /\ SignedUnder(tk, JWT_SECRET) => jwtVerify(tk, JWT_REFRESH_SECRET, TRUE, now).err # ""
          /\ SignedUnder(tk, JWT_REFRESH_SECRET) => jwtVerify(tk, JWT_SECRET, TRUE, now).err # ""
    /\ (resp.op = "profile" /\ resp.input \in IssuedRefreshTokens) => resp.status # 200

\* C8 (as claimed): with both secrets set to the same non-empty value the
\* process exits at module load and serves no request.
C8_EqualSecretsFailFast_AsClaimed ==
    (JWT_SECRET = JWT_REFRESH_SECRET /\ JWT_SECRET # "")
        => (phase # "running" /\ resp = NoResponse)

\* C9: every access token the service has issued (by login or by refresh) is
\* accepted by verifyAccessToken as long as its own exp has not passed,
\* whatever the revocation registry holds, in particular after the session
\* it came from has been logged out.
C9_AccessTokensNotRevocable ==
    [][\A token \in IssuedAccessTokens :
          (GetUserProfile(token) /\ now < token.claims.exp) => resp'.status = 200]_vars

C9_Witness ==
    /\ resp.op = "profile" /\ resp.status = 200
    /\ resp.input \in IssuedAccessTokens /\ resp.input.claims.username = "N/A"
    /\ blacklistedTokens # {}
    /\ \A tk \in IssuedRefreshTokens : tk.claims.jti \in blacklistedTokens

\* C10: a successful refresh(R) answers with an access token and no refresh
\* token, hands out nothing but that access token, leaves the registry and
\* the store as they were, and a further refresh(R) succeeds again; a refresh
\* token issued by login that is unexpired and was never logged out is
\* always refreshed successfully.
C10_RefreshDoesNotRotate ==
    [][\A token \in Presentable :
          RefreshToken(token) =>
              /\ resp'.status = 200 =>
                    /\ resp'.refreshToken = AbsentToken
                    /\ resp'.accessToken.form = "jwt" /\ resp'.accessToken.claims.jti = NoJti
                    /\ tokens' \ tokens \subseteq {resp'.accessToken}
                    /\ blacklistedTokens' = blacklistedTokens
                    /\ users' = users /\ invite_codes' = invite_codes
                    /\ refreshToken(token, blacklistedTokens', now').status = 200
              /\ (token \in IssuedRefreshTokens \ loggedOut /\ now < token.claims.exp)
                    => resp'.status = 200]_vars

C10_Witness ==
    /\ resp.op = "refresh" /\ resp.status = 200
    /\ resp.accessToken \in tokens
    /\ \E tk \in IssuedAccessTokens :
          tk.claims.username = "N/A" /\ tk.claims.iat < resp.accessToken.claims.iat

InvalidCredentials == "Credenciais invalidas."

\* A login request that must fail: no stored user has the username, or the
\* password is not the stored user's.
UnknownUsername(username) == findUserByUsername(users, username) = {}
WrongPassword(username, password) ==
    \E u \in findUserByUsername(users, username) : ~bcryptCompare(password, u.passwordHash)

\* C11: a login with an unknown username and a login with a known username
\* and a wrong password are answered alike: 401 with the one InvalidCredentials
\* message, the same response as any other failing login would get in that
\* state, and neither issues a token.
C11_LoginFailuresIndistinguishable ==
    [][\A username \in Usernames, password \in Passwords :
          (LoginUser(username, password)
             /\ (UnknownUsername(username) \/ WrongPassword(username, password))) =>
              /\ resp'.status = 401 /\ resp'.message = InvalidCredentials
              /\ resp'.accessToken = AbsentToken /\ resp'.refreshToken = AbsentToken
              /\ tokens' = tokens /\ nextJti' = nextJti
              /\ \A username2 \in Usernames, password2 \in Passwords :
                    (UnknownUsername(username2) \/ WrongPassword(username2, password2))
                        => loginUser(users, username2, password2, nextJti, now) = resp']_vars

C11_Witness ==
    /\ resp.op = "login" /\ resp.status = 401 /\ resp.message = InvalidCredentials
    /\ \E username \in Usernames : UnknownUsername(username)
    /\ \E username \in Usernames, password \in Passwords : WrongPassword(username, password)
    /\ tokens # {}

InvalidInviteCode == "Codigo de convite invalido."
InviteCodeAlreadyUsed == "Codigo de convite ja utilizado."

\* C12: a register request whose invite code is not in the table when it is
\* looked up is answered 400 InvalidInviteCode, one whose code is used when it
\* is looked up is answered 400 InviteCodeAlreadyUsed; the lookup step changes
\* no user and no invite code row, the request has created no user, and an
\* answered request takes no further step.
C12_BadInviteCodeRejected ==
    [][/\ \A i \in 1..MaxReq, username \in RegisterUsernames, bodyRole \in BodyRoles,
             inviteCode \in PresentedCodes :
             RegisterFind(i, username, bodyRole, inviteCode) =>
                 /\ users' = users /\ invite_codes' = invite_codes
                 /\ inviteCode \notin DOMAIN invite_codes =>
                       /\ reqs'[i].pc = "done" /\ reqs'[i].status = 400
                       /\ reqs'[i].message = InvalidInviteCode
                       /\ reqs'[i].newUser = NoUser
                 /\ (inviteCode \in DOMAIN invite_codes /\ invite_codes[inviteCode].is_used) =>
                       /\ reqs'[i].pc = "done" /\ reqs'[i].status = 400
                       /\ reqs'[i].message = InviteCodeAlreadyUsed
                       /\ reqs'[i].newUser = NoUser
       /\ \A i \in 1..MaxReq : reqs[i].pc = "done" => reqs'[i] = reqs[i]]_vars

C12_Witness ==
    \E i, j \in Registers :
        /\ reqs[j].status = 201
        /\ reqs[i].status = 400 /\ reqs[i].message = InviteCodeAlreadyUsed
        /\ reqs[i].inviteCode = reqs[j].inviteCode
        /\ reqs[i].newUser = NoUser
        /\ \A u \in users : u.username # reqs[i].username

\* C13: an invite code row is never deleted; a used row is never written
\* again (is_used stays true, used_by stays what the winning mark-used call
\* set); the only change of an unused row is to used with used_by set, by
\* the mark-used step of a register request; a generated code starts unused.
C13_InviteCodeStateMachine ==
    [][/\ \A c \in DOMAIN invite_codes :
             /\ c \in DOMAIN invite_codes'
             /\ invite_codes[c].is_used => invite_codes'[c] = invite_codes[c]
             /\ invite_codes'[c] # invite_codes[c] =>
                   /\ invite_codes'[c].is_used
                   /\ invite_codes'[c].created_by = invite_codes[c].created_by
                   /\ \E i \in Registers :
                         /\ RegisterMark(i) /\ reqs[i].inviteCode = c
                         /\ invite_codes'[c].used_by = reqs[i].newUser
                         /\ reqs[i].newUser # NoUser
       /\ \A c \in DOMAIN invite_codes' \ DOMAIN invite_codes :
             ~invite_codes'[c].is_used /\ invite_codes'[c].used_by = NoUser]_vars

C13_Witness ==
    \E c \in DOMAIN invite_codes \ KnownCodes :
        /\ invite_codes[c].is_used
        /\ \E i \in Registers :
              /\ reqs[i].status = 201 /\ reqs[i].inviteCode = c
              /\ invite_codes[c].used_by = reqs[i].newUser
        /\ \E j \in 1..MaxReq :
              reqs[j].op = "adminGenerate" /\ reqs[j].status = 201 /\ c \in reqs[j].codes

\* C14: a mark-used call returns true (the request is answered 201) exactly
\* when this call took the code from unused to used, recording its own user;
\* a call that returns false writes nothing; and of all the calls made for
\* one code by concurrent register requests at most one returns true.
C14_MarkUsedIsCompareAndSwap ==
    [][\A i \in Registers :
          RegisterMark(i) =>
              LET c == reqs[i].inviteCode
                  returnedTrue == reqs'[i].status = 201
              IN /\ returnedTrue <=> (~invite_codes[c].is_used /\ invite_codes'[c].is_used)
                 /\ returnedTrue <=> markInviteCodeAsUsed(invite_codes, c, reqs[i].newUser).marked
                 /\ returnedTrue => invite_codes'[c].used_by = reqs[i].newUser
                 /\ ~returnedTrue => (invite_codes' = invite_codes /\ reqs'[i].status = 500)
                 /\ returnedTrue =>
                       \A j \in Registers \ {i} :
                           reqs[j].inviteCode = c => reqs[j].status # 201]_vars

C14_Witness ==
    \E i, j \in Registers :
        /\ i # j /\ reqs[i].inviteCode = reqs[j].inviteCode
        /\ reqs[i].status = 500 /\ reqs[j].status = 201
        /\ reqs[i].newUser # NoUser /\ reqs[i].newUser < reqs[j].newUser
        /\ invite_codes[reqs[j].inviteCode].used_by = reqs[j].newUser

AdminCreates == {i \in 1..MaxReq : reqs[i].op = "adminCreate"}

\* C15: an admin-direct creation whose body supplies a role outside
\* {user, admin, moderator} is answered with an error before any store call
\* (400 once the admin gate is passed) and creates no user, and no request
\* with such a role is ever started; a creation that
\* is answered 201 has added exactly one user, whose role is the supplied
\* allowed role, or 'user' when the body carried no role, and reports it.
C15_AdminCreateRole ==
    [][/\ (resp = NoResponse /\ resp'.op = "adminCreate") =>
             /\ users' = users /\ reqs' = reqs
             /\ \A i \in 1..MaxReq, username \in AdminUsernames,
                   role \in AdminBodyRoles \ (allowedRoles \cup {""}) :
                   AdminCreateFind(i, resp'.input, username, role) =>
                       /\ resp'.status \in {400, 401, 403}
                       /\ adminGate(resp'.input, blacklistedTokens, now).status = 200
                             => resp'.status = 400
       /\ \A i \in 1..MaxReq :
             (reqs[i].op = "none" /\ reqs'[i].op = "adminCreate") =>
                 /\ users' = users
                 /\ reqs'[i].role \in allowedRoles \cup {""}
       /\ \A i \in AdminCreates :
             AdminCreateAddUser(i) =>
                 /\ reqs[i].role \in allowedRoles \cup {""}
                 /\ IF reqs'[i].status = 201
                    THEN \E u \in users' \ users :
                            /\ users' = users \cup {u}
                            /\ u.id = reqs'[i].newUser /\ u.username = reqs[i].username
                            /\ u.role = (IF reqs[i].role = "" THEN "user" ELSE reqs[i].role)
                            /\ reqs'[i].resRole = u.role
                    ELSE users' = users]_vars

C15_Witness ==
    /\ resp.op = "adminCreate" /\ resp.status = 400 /\ resp.message = "Papel (role) invalido."
    /\ \E i \in AdminCreates :
          /\ reqs[i].status = 201 /\ reqs[i].role = "moderator" /\ reqs[i].resRole = "moderator"
          /\ \E u \in users : u.id = reqs[i].newUser /\ u.role = "moderator"

\* The jti values uuidv4() can have produced, and one it has not.
Jtis == 1..(MaxLogins + 1)

\* C16: in every registry state the service reaches and for every jti value,
\* revoking it twice leaves the registry a single revoke leaves, and it is
\* reported revoked after one revoke and after two; revoking with no jti
\* twice is likewise the same as once (both leave the registry alone).
C16_RevokeIdempotent ==
    /\ \A jti \in Jtis :
          LET once == addToBlacklist(blacklistedTokens, jti)
              twice == addToBlacklist(once, jti)
          IN /\ twice = once
             /\ isBlacklisted(once, jti) /\ isBlacklisted(twice, jti)
             /\ \A other \in Jtis \ {jti} :
                   isBlacklisted(twice, other) = isBlacklisted(blacklistedTokens, other)
    /\ addToBlacklist(addToBlacklist(blacklistedTokens, NoJti), NoJti)
          = addToBlacklist(blacklistedTokens, NoJti)
    /\ (resp.op = "logout" /\ resp.message = "Logout bem-sucedido!") =>
          /\ isBlacklisted(blacklistedTokens, resp.input.claims.jti)
          /\ addToBlacklist(blacklistedTokens, resp.input.claims.jti) = blacklistedTokens

C16_Witness ==
    /\ resp.op = "logout" /\ resp.message = "Logout bem-sucedido!"
    /\ resp.input \in loggedOut
    /\ \E jti \in Jtis : jti \in blacklistedTokens /\ jti # resp.input.claims.jti
    /\ \E jti \in Jtis : jti \notin blacklistedTokens

\* C17: no step takes a jti out of the registry; a logout that revokes a jti
\* leaves it reported revoked, and the jti of every refresh token for which
\* logout has returned is reported revoked after every later step, whatever
\* logins, refreshes, logouts, profile reads and clock ticks come in between.
C17_RegistryMonotonic ==
    [][/\ blacklistedTokens \subseteq blacklistedTokens'
       /\ \A jti \in Jtis :
             isBlacklisted(blacklistedTokens, jti) => isBlacklisted(blacklistedTokens', jti)
       /\ \A token \in Presentable :
             (LogoutUser(token) /\ resp'.message = "Logout bem-sucedido!") =>
                 isBlacklisted(blacklistedTokens', token.claims.jti)
       /\ \A token \in loggedOut' : isBlacklisted(blacklistedTokens', token.claims.jti)]_vars

C17_Witness ==
    /\ Cardinality(blacklistedTokens) >= 2
    /\ resp.op = "refresh" /\ resp.message = Revoked
    /\ \A tk \in IssuedRefreshTokens : tk \in loggedOut
    /\ now > 0

\* The access token login returned together with refresh token rt.
LoginAccessToken(rt) == generateAccessToken(UserById(users, rt.claims.id), rt.claims.iat)

\* C18 (as claimed): a refresh with an unexpired refresh token returned by a
\* login of user u succeeds with an access token that is not the access token
\* that login returned, verifies under the access secret and carries the id
\* and the role of u.
C18_LoginThenRefresh_AsClaimed ==
    [][\A token \in IssuedRefreshTokens :
          (RefreshToken(token) /\ now < token.claims.exp) =>
              LET u == UserById(users, token.claims.id)
                  v == jwtVerify(resp'.accessToken, JWT_SECRET, FALSE, now)
              IN /\ resp'.status = 200
                 /\ v.err = "" /\ v.decoded.id = u.id /\ v.decoded.role = u.role
                 /\ resp'.accessToken # LoginAccessToken(token)]_vars

\* C18 without the distinctness: the refresh succeeds with an access token
\* that verifies under the access secret and carries the id and role of u.
C18_RefreshCarriesIdAndRole ==
    [][\A token \in IssuedRefreshTokens :
          (RefreshToken(token) /\ now < token.claims.exp) =>
              LET u == UserById(users, token.claims.id)
                  v == jwtVerify(resp'.accessToken, JWT_SECRET, FALSE, now)
              IN /\ resp'.status = 200
                 /\ v.err = "" /\ v.decoded.id = u.id /\ v.decoded.role = u.role
                 /\ (u.username # "N/A" \/ now > token.claims.iat)
                       => resp'.accessToken # LoginAccessToken(token)]_vars

C18_Witness ==
    /\ resp.op = "refresh" /\ resp.status = 200
    /\ resp.input.claims.id = 2
    /\ resp.accessToken.claims.iat = resp.input.claims.iat
    /\ resp.accessToken # LoginAccessToken(resp.input)

\* C19: for every stored user, the access token issued for it verifies under
\* the access secret with the user's id, username and role, and the refresh
\* token issued for it verifies under the refresh secret with the user's id
\* and role, the jti it was given (not empty) and no username; the tokens of
\* a successful login are those of the stored user with the login's username.
C19_TokenRoundTrip ==
    /\ \A u \in users, jwtid \in Jtis :
          LET va == jwtVerify(generateAccessToken(u, now), JWT_SECRET, FALSE, now)
              vr == jwtVerify(generateRefreshToken(u, jwtid, now), JWT_REFRESH_SECRET, FALSE, now)
          IN /\ va.err = ""
             /\ va.decoded.id = u.id /\ va.decoded.username = u.username
             /\ va.decoded.role = u.role
             /\ vr.err = ""
             /\ vr.decoded.id = u.id /\ vr.decoded.role = u.role
             /\ vr.decoded.jti = jwtid /\ vr.decoded.jti # NoJti
             /\ vr.decoded.username = ""
    /\ (resp.op = "login" /\ resp.status = 200) =>
          LET va == jwtVerify(resp.accessToken, JWT_SECRET, FALSE, now)
              vr == jwtVerify(resp.refreshToken, JWT_REFRESH_SECRET, FALSE, now)
          IN /\ va.err = "" /\ vr.err = ""
             /\ \E u \in users :
                   /\ va.decoded.id = u.id /\ va.decoded.username = u.username
                   /\ va.decoded.role = u.role
                   /\ vr.decoded.id = u.id /\ vr.decoded.role = u.role
                   /\ vr.decoded.jti # NoJti /\ vr.decoded.username = ""

C19_Witness ==
    /\ resp.op = "login" /\ resp.status = 200
    /\ resp.accessToken.claims.role = "moderator"
    /\ resp.accessToken.claims.username = "alice"
    /\ resp.refreshToken.claims.jti > 1
    /\ now > 0

\* The bearer token verifies under the access secret, is unexpired and
\* carries role 'admin'.
AdminToken(token) ==
    /\ SignedUnder(token, JWT_SECRET)
    /\ now < token.claims.exp
    /\ token.claims.role = "admin"

AdminGenerates == {i \in 1..MaxReq : reqs[i].op = "adminGenerate"}

\* C20: a request to POST /users or POST /invite-codes reaches the controller
\* only with a bearer token that verifies under the access secret, is
\* unexpired and carries role 'admin'; with any other bearer (none, no JWT,
\* forged, expired, another role) it is answered 401 or 403 and no request
\* is started; users are added only by the insert step of a started
\* admin-direct request and invite codes only by the loop of a started
\* generate request, in the name of the admin of its token.
C20_AdminGating ==
    [][/\ (resp = NoResponse /\ resp'.op \in {"adminCreate", "adminGenerate"}) =>
             /\ users' = users /\ invite_codes' = invite_codes /\ reqs' = reqs
             /\ ~AdminToken(resp'.input) => resp'.status \in {401, 403}
             /\ AdminToken(resp'.input) => resp'.status = 400
       /\ \A i \in 1..MaxReq :
             /\ (reqs[i].op = "none" /\ reqs'[i].op = "adminCreate") =>
                   /\ users' = users /\ invite_codes' = invite_codes
                   /\ \A token \in Bearers :
                         AdminCreateFind(i, token, reqs'[i].username, reqs'[i].role) =>
                             (AdminToken(token) /\ reqs'[i].adminUserId = token.claims.id)
                   /\ \E token \in Bearers :
                         AdminCreateFind(i, token, reqs'[i].username, reqs'[i].role)
             /\ (reqs[i].op = "none" /\ reqs'[i].op = "adminGenerate") =>
                   /\ users' = users /\ invite_codes' = invite_codes
                   /\ \A token \in Bearers, quantity \in Quantities :
                         AdminGenerateStart(i, token, quantity) =>
                             (AdminToken(token) /\ reqs'[i].adminUserId = token.claims.id)
                   /\ \E token \in Bearers, quantity \in Quantities :
                         AdminGenerateStart(i, token, quantity)
       /\ users' # users =>
             \E i \in AdminCreates : AdminCreateAddUser(i) /\ reqs'[i].status = 201
       /\ invite_codes' # invite_codes =>
             \E i \in AdminGenerates, code \in RandomCodes :
                 /\ AdminGenerateAdd(i, code)
                 /\ invite_codes'[code].created_by = reqs[i].adminUserId]_vars

C20_Witness ==
    /\ resp.op = "adminGenerate" /\ resp.status = 403
    /\ resp.message = "Acesso proibido. Permissoes insuficientes."
    /\ resp.input \in IssuedAccessTokens /\ resp.input.claims.role = "moderator"
    /\ \E i \in AdminCreates :
          reqs[i].status = 201 /\ reqs[i].newUser = resp.input.claims.id
    /\ DOMAIN invite_codes = KnownCodes

BadQuantities == {quantity \in Quantities : quantity # NoQuantity /\ (quantity < 1 \/ quantity > MaxQuantity)}

\* The answered generate requests whose body carried no quantity.
NoQuantityGenerates ==
    {i \in AdminGenerates : reqs[i].bodyQuantity = NoQuantity /\ reqs[i].pc = "done"}

\* C21 (as claimed): a generate request with a quantity below 1 or above the
\* limit is never started, and every answered generate request without a
\* quantity has stored exactly one invite code.
C21_InviteBatchBounds_AsClaimed ==
    /\ \A i \in AdminGenerates : reqs[i].bodyQuantity \notin BadQuantities
    /\ \A i \in NoQuantityGenerates : Cardinality(reqs[i].codes) = 1

\* C21 (amended): a generate request with a quantity below 1 or above the
\* limit is answered with an error (400 once the admin gate is passed), is
\* never started and stores no code; a request without a quantity asks for
\* one code and makes at most two insert attempts: it is answered 201 with
\* exactly one stored code, or 500 with none when both inserts failed.
C21_InviteBatchBounds ==
    [][/\ (resp = NoResponse /\ resp'.op = "adminGenerate") =>
             /\ invite_codes' = invite_codes /\ reqs' = reqs
             /\ \A i \in 1..MaxReq, quantity \in BadQuantities :
                   AdminGenerateStart(i, resp'.input, quantity) =>
                       /\ resp'.status \in {400, 401, 403}
                       /\ AdminToken(resp'.input) => resp'.status = 400
       /\ \A i \in 1..MaxReq :
             (reqs[i].op = "none" /\ reqs'[i].op = "adminGenerate") =>
                 /\ invite_codes' = invite_codes
                 /\ reqs'[i].bodyQuantity \notin BadQuantities
                 /\ reqs'[i].quantity \in 1..MaxQuantity
                 /\ reqs'[i].bodyQuantity = NoQuantity => reqs'[i].quantity = 1
       /\ \A i \in AdminGenerates :
             (reqs[i].bodyQuantity = NoQuantity /\ reqs'[i] # reqs[i]) =>
                 /\ reqs'[i].attempts <= 2
                 /\ reqs'[i].codes = DOMAIN invite_codes' \ DOMAIN invite_codes
                 /\ reqs'[i].pc = "done" =>
                       \/ reqs'[i].status = 201 /\ Cardinality(reqs'[i].codes) = 1
                       \/ /\ reqs'[i].status = 500 /\ reqs'[i].codes = {}
                          /\ reqs'[i].attempts = 2]_vars

C21_Witness ==
    /\ resp.op = "adminGenerate" /\ resp.status = 400
    /\ \E i \in NoQuantityGenerates :
          /\ reqs[i].status = 201 /\ Cardinality(reqs[i].codes) = 1
          /\ reqs[i].attempts = 1
          /\ \A c \in reqs[i].codes :
                c \in DOMAIN invite_codes /\ invite_codes[c].created_by = reqs[i].adminUserId

\* A token that carries a jti, is validly signed under the refresh secret
\* and has its exp at or before the clock.
ExpiredRefreshToken(token, t) ==
    /\ SignedUnder(token, JWT_REFRESH_SECRET)
    /\ token.claims.jti # NoJti
    /\ t >= token.claims.exp

\* C22: a logout presenting a token validly signed under the refresh secret
\* whose exp lies in the past answers 200 and leaves the token's jti in the
\* revocation registry, inserting it when it was not there yet.
C22_ExpiredTokenCanBeRevoked ==
    [][(resp = NoResponse /\ resp'.op = "logout" /\ ExpiredRefreshToken(resp'.input, now)) =>
           /\ resp'.status = 200 /\ resp'.message = "Logout bem-sucedido!"
           /\ blacklistedTokens' = blacklistedTokens \cup {resp'.input.claims.jti}
           /\ isBlacklisted(blacklistedTokens', resp'.input.claims.jti)]_vars

C22_Witness ==
    /\ resp.op = "logout" /\ resp.message = "Logout bem-sucedido!"
    /\ ExpiredRefreshToken(resp.input, now)
    /\ resp.input \in tokens
    /\ blacklistedTokens = {resp.input.claims.jti}

\* verifyToken with the revocation check switched on, under the refresh secret.
verifyRefreshTokenMiddleware(token) ==
    verifyToken(token, JWT_REFRESH_SECRET, TRUE, blacklistedTokens, now)

\* C23: the verifier checks the signature, then the expiry, then the
\* registry: a token whose signature does not verify is answered Invalid
\* (403) even when its exp is past or its jti is revoked, and a validly
\* signed token that is expired is answered Expired (401) even when its jti
\* is revoked; Revoked is answered only for signed, unexpired tokens. This
\* holds for the refresh endpoint and for the bearer middleware.
C23_VerifierOrder ==
    [][/\ (resp = NoResponse /\ resp'.op = "refresh" /\ resp'.input.form = "jwt") =>
             LET token == resp'.input IN
             /\ ~SignedUnder(token, JWT_REFRESH_SECRET) =>
                   resp'.status = 403 /\ resp'.message = Invalid
             /\ (SignedUnder(token, JWT_REFRESH_SECRET) /\ now >= token.claims.exp) =>
                   resp'.status = 401 /\ resp'.message = Expired
             /\ resp'.message = Revoked =>
                   SignedUnder(token, JWT_REFRESH_SECRET) /\ now < token.claims.exp
       /\ \A token \in {tk \in Presentable : tk.form = "jwt"} :
             LET m == verifyRefreshTokenMiddleware(token) IN
             /\ ~SignedUnder(token, JWT_REFRESH_SECRET) =>
                   m.status = 403 /\ m.message = "Token invalido."
             /\ (SignedUnder(token, JWT_REFRESH_SECRET) /\ now >= token.claims.exp) =>
                   m.status = 401 /\ m.message = "Token expirado."
             /\ m.message = "Token invalido (revogado)." =>
                   /\ SignedUnder(token, JWT_REFRESH_SECRET) /\ now < token.claims.exp
                   /\ isBlacklisted(blacklistedTokens, token.claims.jti)]_vars

\* A refresh of a forged copy of an expired, revoked token was answered Invalid.
C23_ForgedExpiredRevoked ==
    /\ resp.op = "refresh" /\ resp.message = Invalid
    /\ resp.input.form = "jwt" /\ ~SignedUnder(resp.input, JWT_REFRESH_SECRET)
    /\ now >= resp.input.claims.exp
    /\ isBlacklisted(blacklistedTokens, resp.input.claims.jti)

\* A refresh of a signed token, expired and revoked, was answered Expired.
C23_Witness ==
    /\ resp.op = "refresh" /\ resp.message = Expired /\ resp.status = 401
    /\ ExpiredRefreshToken(resp.input, now)
    /\ isBlacklisted(blacklistedTokens, resp.input.claims.jti)
    /\ verifyRefreshTokenMiddleware(resp.input).message = "Token expirado."

\* C24 (as claimed): a token validly signed under the refresh secret,
\* unexpired and carrying no jti is never answered Revoked by the refresh
\* endpoint; Revoked is answered only for a jti held in the registry.
C24_RevokedOnlyForRegisteredJti_AsClaimed ==
    (resp.op = "refresh" /\ resp.message = Revoked) =>
        /\ resp.input.claims.jti # NoJti
        /\ isBlacklisted(blacklistedTokens, resp.input.claims.jti)

\* The refresh endpoint answered Revoked for a signed, unexpired token
\* without jti while the middleware check lets the same token through.
C24_NoJtiAnsweredRevoked ==
    /\ resp.op = "refresh" /\ resp.status = 401 /\ resp.message = Revoked
    /\ SignedUnder(resp.input, JWT_REFRESH_SECRET)
    /\ now < resp.input.claims.exp
    /\ resp.input.claims.jti = NoJti
    /\ verifyRefreshTokenMiddleware(resp.input).status = 200

\* C25: a logout whose token is malformed or does not verify under the
\* refresh secret leaves the revocation registry unchanged; in particular a
\* forged token that carries the jti of an issued refresh token does not
\* revoke that token.
C25_InvalidLogoutLeavesRegistry ==
    [][(resp = NoResponse /\ resp'.op = "logout"
        /\ ~SignedUnder(resp'.input, JWT_REFRESH_SECRET)) =>
           /\ blacklistedTokens' = blacklistedTokens
           /\ \A R \in IssuedRefreshTokens :
                 (R.claims.jti = resp'.input.claims.jti /\ refreshToken(R, blacklistedTokens, now).status = 200)
                     => refreshToken(R, blacklistedTokens', now').status = 200]_vars

\* A forged token carrying the jti of a live session was presented to
\* logout, and the session's refresh token is still accepted.
C25_Witness ==
    /\ resp.op = "logout" /\ resp.message = "Logout realizado (token invalido)."
    /\ resp.input \in Forgeries(tokens)
    /\ \E R \in IssuedRefreshTokens :
          /\ SignedUnder(R, JWT_REFRESH_SECRET)
          /\ R.claims.jti = resp.input.claims.jti
          /\ ~isBlacklisted(blacklistedTokens, R.claims.jti)
          /\ refreshToken(R, blacklistedTokens, now).status = 200

InternalInconsistency == "Erro ao finalizar registro. Contate o suporte."
DuplicateUsername == "Nome de usuario ja esta em uso."

\* Request i created its user and its mark-used call found the code used.
PostCreationFailure(i) ==
    /\ reqs[i].op = "register" /\ reqs[i].pc = "done"
    /\ reqs[i].newUser # NoUser
    /\ reqs[i].status # 201

\* C26: when a register request has created its user and its conditional
\* mark-used update affects no row (the code is already used), the request
\* is answered 500 with a message that is neither the success message nor
\* one of the validation errors; the step changes no row, the created user
\* stays in the store and is the used_by of no invite code.
C26_PostCreationInconsistency ==
    [][\A i \in 1..MaxReq :
         /\ (reqs[i].op = "register" /\ reqs[i].pc = "mark" /\ reqs'[i] # reqs[i]
              /\ invite_codes[reqs[i].inviteCode].is_used) =>
                /\ reqs'[i].pc = "done" /\ reqs'[i].status = 500
                /\ reqs'[i].message = InternalInconsistency
                /\ users' = users /\ invite_codes' = invite_codes
         /\ PostCreationFailure(i)' =>
                /\ reqs'[i].status = 500 /\ reqs'[i].message = InternalInconsistency
                /\ reqs'[i].message \notin {"Usuario registrado com sucesso!", InvalidInviteCode,
                                             InviteCodeAlreadyUsed, DuplicateUsername}
                /\ \E u \in users' : u.id = reqs'[i].newUser /\ u.username = reqs'[i].username
                /\ \A c \in DOMAIN invite_codes' : invite_codes'[c].used_by # reqs'[i].newUser]_vars

C26_Witness ==
    \E i, j \in Registers :
        /\ PostCreationFailure(i) /\ reqs[i].status = 500
        /\ reqs[i].message = InternalInconsistency
        /\ \E u \in users : u.id = reqs[i].newUser
        /\ reqs[j].pc = "done" /\ reqs[j].status = 201
        /\ reqs[j].inviteCode = reqs[i].inviteCode
        /\ invite_codes[reqs[i].inviteCode].used_by = reqs[j].newUser

\* The accounts in the store created by register requests presenting code c.
CreatedWith(c) ==
    {u \in users : \E i \in Registers : reqs[i].inviteCode = c /\ reqs[i].newUser = u.id}

\* C27 (as claimed): for every invite code, the register requests presenting
\* it have created at most one user account, in every interleaving.
C27_OneAccountPerCode_AsClaimed ==
    \A c \in PresentedCodes : Cardinality(CreatedWith(c)) <= 1

\* Two accounts created with one code: the winner of the mark-used update
\* and the request answered 500.
C27_TwoAccountsOneCode ==
    \E i, j \in Registers :
        /\ reqs[i].inviteCode = reqs[j].inviteCode
        /\ reqs[i].status = 201 /\ reqs[j].status = 500
        /\ {reqs[i].newUser, reqs[j].newUser} \subseteq {u.id : u \in users}
        /\ reqs[i].newUser # reqs[j].newUser
        /\ Cardinality(CreatedWith(reqs[i].inviteCode)) = 2

\* The register requests answered with success for code c.
SucceededWith(c) ==
    {i \in Registers : reqs[i].pc = "done" /\ reqs[i].status = 201 /\ reqs[i].inviteCode = c}

\* C28: when a register request is answered with success for user u and
\* code c, its own mark-used call has just turned c from unused to used
\* with used_by = u.id, u is in the store, and c keeps that used_by
\* afterwards; for every code at most one register request is answered
\* with success.
C28_SuccessConsumesCode ==
    [][/\ \A i \in 1..MaxReq :
             (reqs[i].op = "register" /\ reqs[i].pc # "done"
              /\ reqs'[i].pc = "done" /\ reqs'[i].status = 201) =>
                 LET c == reqs[i].inviteCode IN
                 /\ reqs[i].pc = "mark"
                 /\ c \in DOMAIN invite_codes /\ ~invite_codes[c].is_used
                 /\ invite_codes'[c].is_used
                 /\ invite_codes'[c].used_by = reqs'[i].newUser
                 /\ \E u \in users' : u.id = reqs'[i].newUser /\ u.username = reqs'[i].username
       /\ \A c \in DOMAIN invite_codes' :
             /\ Cardinality(SucceededWith(c)') <= 1
             /\ \A i \in SucceededWith(c)' :
                   invite_codes'[c].is_used /\ invite_codes'[c].used_by = reqs'[i].newUser]_vars

C28_Witness ==
    \E i, j \in Registers :
        /\ i # j /\ reqs[i].inviteCode = reqs[j].inviteCode
        /\ SucceededWith(reqs[i].inviteCode) = {i}
        /\ invite_codes[reqs[i].inviteCode].is_used
        /\ invite_codes[reqs[i].inviteCode].used_by = reqs[i].newUser
        /\ reqs[j].pc = "done" /\ reqs[j].status \in {400, 500}

\* An access token minted by a refresh of R at time t.
RefreshedFrom(R, t) ==
    generateAccessToken([id |-> R.claims.id, role |-> R.claims.role, username |-> "N/A"], t)

\* C29: the refresh and the logout handler each run in one turn, so a
\* refresh racing a logout on the same issued refresh token R runs wholly
\* before or wholly after it. A refresh of R, unexpired, is answered 200
\* when R's jti is not in the registry and Revoked when it is, and leaves
\* the registry alone; a logout of R is answered with success and leaves
\* R's jti in the registry; once R has been logged out its jti stays in the
\* registry and no refresh of R succeeds.
C29_RefreshRacingLogout ==
    [][/\ (resp = NoResponse /\ resp'.op = "refresh" /\ resp'.input \in IssuedRefreshTokens) =>
             LET R == resp'.input IN
             /\ blacklistedTokens' = blacklistedTokens
             /\ now < R.claims.exp =>
                   /\ resp'.status = 200 \/ resp'.message = Revoked
                   /\ resp'.status = 200 <=> ~isBlacklisted(blacklistedTokens, R.claims.jti)
                   /\ resp'.message = Revoked <=> isBlacklisted(blacklistedTokens, R.claims.jti)
       /\ (resp = NoResponse /\ resp'.op = "logout" /\ resp'.input \in IssuedRefreshTokens) =>
             LET R == resp'.input IN
             /\ resp'.status = 200 /\ resp'.message = "Logout bem-sucedido!"
             /\ blacklistedTokens' = blacklistedTokens \cup {R.claims.jti}
             /\ R \in loggedOut'
       /\ \A R \in loggedOut' :
             /\ isBlacklisted(blacklistedTokens', R.claims.jti)
             /\ refreshToken(R, blacklistedTokens', now').status # 200
             /\ now' < R.claims.exp => refreshToken(R, blacklistedTokens', now').message = Revoked]_vars

\* The logout of R has just been answered in the same instant in which a
\* refresh of R had succeeded; R is now refused as revoked.
C29_Witness ==
    /\ resp.op = "logout" /\ resp.message = "Logout bem-sucedido!"
    /\ resp.input \in IssuedRefreshTokens \cap loggedOut
    /\ now < resp.input.claims.exp
    /\ resp.input.claims.iat < now
    /\ RefreshedFrom(resp.input, now) \in tokens
    /\ isBlacklisted(blacklistedTokens, resp.input.claims.jti)
    /\ refreshToken(resp.input, blacklistedTokens, now).message = Revoked

\* C30: every refresh token a login issues carries a jti that no token
\* issued before carries, so two issued refresh tokens never share a jti;
\* a logout changes the refresh answer of no issued refresh token other
\* than the one presented: a refresh token of another session, also one of
\* the same user, that was accepted before the logout is accepted after it.
C30_SessionsIndependent ==
    [][/\ (resp = NoResponse /\ resp'.op = "login" /\ resp'.status = 200) =>
             /\ resp'.refreshToken.claims.jti # NoJti
             /\ \A tk \in tokens : tk.claims.jti # resp'.refreshToken.claims.jti
       /\ \A R1, R2 \in IssuedRefreshTokens' : R1 # R2 => R1.claims.jti # R2.claims.jti
       /\ (resp = NoResponse /\ resp'.op = "logout") =>
             \A R2 \in IssuedRefreshTokens \ {resp'.input} :
                 /\ isBlacklisted(blacklistedTokens', R2.claims.jti)
                       <=> isBlacklisted(blacklistedTokens, R2.claims.jti)
                 /\ refreshToken(R2, blacklistedTokens', now') = refreshToken(R2, blacklistedTokens, now)]_vars

\* Two sessions of one user: the first was logged out and is refused, the
\* second is still accepted.
C30_Witness ==
    /\ resp.op = "logout" /\ resp.message = "Logout bem-sucedido!"
    /\ resp.input \in IssuedRefreshTokens
    /\ refreshToken(resp.input, blacklistedTokens, now).message = Revoked
    /\ \E R2 \in IssuedRefreshTokens :
          /\ R2 # resp.input
          /\ R2.claims.id = resp.input.claims.id
          /\ R2.claims.jti # resp.input.claims.jti
          /\ refreshToken(R2, blacklistedTokens, now).status = 200

\* C31: the access token a successful refresh returns carries the id and the
\* role of the presented refresh token's claims, which are those the user
\* had when login issued that token; the users table is not consulted, so
\* after a change of the stored role the refreshed access token still
\* carries the role held at login.
C31_RefreshRoleFromClaims ==
    [][/\ (resp = NoResponse /\ resp'.op = "login" /\ resp'.status = 200) =>
             \E u \in users :
                 /\ resp'.refreshToken.claims.id = u.id
                 /\ resp'.refreshToken.claims.role = u.role
       /\ (resp = NoResponse /\ resp'.op = "refresh" /\ resp'.status = 200) =>
             /\ resp'.input \in IssuedRefreshTokens
             /\ resp'.accessToken.claims.id = resp'.input.claims.id
             /\ resp'.accessToken.claims.role = resp'.input.claims.role
             /\ SignedUnder(resp'.accessToken, JWT_SECRET)
             /\ users' = users]_vars

\* A refresh succeeded after the stored role of the token's user changed:
\* the new access token carries the token's role, not the stored one.
C31_Witness ==
    /\ resp.op = "refresh" /\ resp.status = 200
    /\ resp.accessToken.claims.role = resp.input.claims.role
    /\ \E u \in users :
          /\ u.id = resp.input.claims.id
          /\ u.role # resp.accessToken.claims.role

\* The issued refresh tokens whose jti is in the registry and whose exp is ahead.
RevokedUnexpired ==
    {R \in IssuedRefreshTokens : isBlacklisted(blacklistedTokens, R.claims.jti) /\ now < R.claims.exp}

\* C32: a process restart leaves the revocation registry empty, so every
\* refresh token that was refused as Revoked before the restart and has not
\* expired is accepted by refresh after it; a refresh of a logged-out,
\* unexpired token whose jti the registry no longer holds answers 200.
C32_RestartEmptiesRegistry ==
    [][/\ (phase = "running" /\ phase' = "boot") =>
             /\ blacklistedTokens' = {}
             /\ \A R \in RevokedUnexpired :
                   /\ refreshToken(R, blacklistedTokens, now).message = Revoked
                   /\ refreshToken(R, blacklistedTokens', now').status = 200
       /\ (resp = NoResponse /\ resp'.op = "refresh" /\ resp'.input \in loggedOut
           /\ now < resp'.input.claims.exp) =>
             (resp'.status = 200 <=> ~isBlacklisted(blacklistedTokens, resp'.input.claims.jti))]_vars

\* A refresh token logged out before a restart was accepted after it.
C32_Witness ==
    /\ resp.op = "refresh" /\ resp.status = 200
    /\ resp.input \in loggedOut
    /\ now < resp.input.claims.exp
    /\ blacklistedTokens = {}

\* C33: a login request, answered 200 or 401, leaves the users table, the
\* invite codes and the revocation registry exactly as they were; the only
\* thing a successful login adds is the pair of tokens it returns.
C33_LoginHasNoSideEffects ==
    [][(resp = NoResponse /\ resp'.op = "login") =>
           /\ resp'.status \in {200, 401}
           /\ users' = users /\ nextUserId' = nextUserId
           /\ invite_codes' = invite_codes
           /\ blacklistedTokens' = blacklistedTokens
           /\ reqs' = reqs
           /\ tokens' = IF resp'.status = 200
                        THEN tokens \cup {resp'.accessToken, resp'.refreshToken}
                        ELSE tokens
           /\ \A R \in IssuedRefreshTokens :
                 refreshToken(R, blacklistedTokens', now') = refreshToken(R, blacklistedTokens, now)]_vars

\* A second login of a user succeeded and the earlier session of the same
\* user is still accepted by refresh.
C33_Witness ==
    /\ resp.op = "login" /\ resp.status = 200
    /\ users = {SeedAdmin} /\ blacklistedTokens = {}
    /\ \E R \in IssuedRefreshTokens \ {resp.refreshToken} :
          /\ R.claims.id = resp.refreshToken.claims.id
          /\ refreshToken(R, blacklistedTokens, now).status = 200

\* C34: in every registry state, revoking the empty or absent jti leaves the
\* registry as it is and the membership test of the empty or absent jti is
\* false; the registry never holds it, and a logout whose verified token
\* carries no jti changes nothing.
C34_EmptyJtiIsNoOp ==
    [][/\ addToBlacklist(blacklistedTokens, NoJti) = blacklistedTokens
       /\ addToBlacklist(blacklistedTokens', NoJti) = blacklistedTokens'
       /\ ~isBlacklisted(blacklistedTokens, NoJti) /\ ~isBlacklisted(blacklistedTokens', NoJti)
       /\ NoJti \notin blacklistedTokens'
       /\ (resp = NoResponse /\ resp'.op = "logout"
           /\ SignedUnder(resp'.input, JWT_REFRESH_SECRET)
           /\ resp'.input.claims.jti = NoJti) =>
             /\ resp'.message = "Logout processado."
             /\ blacklistedTokens' = blacklistedTokens]_vars

\* A logout with a verified token without jti was answered while the
\* registry holds a revoked session.
C34_Witness ==
    /\ resp.op = "logout" /\ resp.message = "Logout processado."
    /\ resp.input.claims.jti = NoJti
    /\ blacklistedTokens # {} /\ NoJti \notin blacklistedTokens
    /\ addToBlacklist(blacklistedTokens, NoJti) = blacklistedTokens
    /\ ~isBlacklisted(blacklistedTokens, NoJti)

\* C35 (steps): every insert attempt of a generate request for q codes is
\* one of at most 2*q; it either stores one new code, unused and created by
\* the calling admin, or changes nothing; the request goes on only while it
\* has fewer than q codes and fewer than 2*q attempts, and is answered 201
\* with between 1 and q stored codes, or 500 exactly when it stored none.
C35_GenerationSteps ==
    [][\A i \in AdminGenerates :
         (reqs[i].pc = "generate" /\ reqs'[i] # reqs[i]) =>
            LET q == reqs[i].quantity
                new == DOMAIN invite_codes' \ DOMAIN invite_codes
            IN /\ q \in 1..MaxQuantity
               /\ reqs'[i].attempts = reqs[i].attempts + 1
               /\ reqs'[i].attempts <= 2 * q
               /\ reqs'[i].codes = reqs[i].codes \cup new
               /\ Cardinality(new) <= 1
               /\ \A c \in DOMAIN invite_codes : invite_codes'[c] = invite_codes[c]
               /\ \A c \in new :
                     invite_codes'[c] = [is_used |-> FALSE, created_by |-> reqs[i].adminUserId,
                                         used_by |-> NoUser]
               /\ reqs'[i].pc = "generate" =>
                     Cardinality(reqs'[i].codes) < q /\ reqs'[i].attempts < 2 * q
               /\ reqs'[i].pc = "done" =>
                     /\ reqs'[i].status \in {201, 500}
                     /\ reqs'[i].status = 500 <=> reqs'[i].codes = {}
                     /\ reqs'[i].status = 201 =>
                           /\ Cardinality(reqs'[i].codes) \in 1..q
                           /\ \A c \in reqs'[i].codes :
                                 /\ c \in DOMAIN invite_codes'
                                 /\ invite_codes'[c].created_by = reqs[i].adminUserId]_vars

\* C35: invite-code generation is bounded and terminates: every started
\* generate request is answered, after at most 2*q insert attempts, with
\* success and 1..q stored codes or with failure and none.
C35_GenerationBounded ==
    /\ C35_GenerationSteps
    /\ \A i \in 1..MaxReq :
          (reqs[i].op = "adminGenerate" /\ reqs[i].pc = "generate") ~> (reqs[i].pc = "done")

\* One request was answered 201 with fewer codes than asked for after using
\* up its attempts, another 500 after two collisions.
C35_Witness ==
    \E i, j \in AdminGenerates :
        /\ reqs[i].pc = "done" /\ reqs[i].status = 201
        /\ reqs[j].pc = "done" /\ reqs[j].status = 500 /\ reqs[j].codes = {}
        /\ reqs[j].attempts = 2 * reqs[j].quantity
        /\ \A c \in reqs[i].codes : invite_codes[c].created_by = reqs[i].adminUserId

\* The answered admin-direct creations of username n.
AnsweredCreates(n) ==
    {i \in AdminCreates : reqs[i].username = n /\ reqs[i].pc = "done"}

\* C36: an admin-direct creation whose username exists at the pre-check or
\* at the insert is answered 409 DuplicateUsername and changes no user
\* record; an insert of a free username adds exactly that user. Of the
\* creations of one new username, however their pre-checks and inserts
\* interleave, exactly one is answered 201 and every other one 409.
C36_AdminDuplicateUsername ==
    [][/\ \A i \in 1..MaxReq :
             /\ (reqs[i].op = "none" /\ reqs'[i].op = "adminCreate") =>
                   /\ users' = users
                   /\ IF findUserByUsername(users, reqs'[i].username) # {}
                      THEN /\ reqs'[i].pc = "done" /\ reqs'[i].status = 409
                           /\ reqs'[i].message = DuplicateUsername
                      ELSE reqs'[i].pc = "addUser"
             /\ (reqs[i].op = "adminCreate" /\ reqs[i].pc = "addUser" /\ reqs'[i] # reqs[i]) =>
                   /\ reqs'[i].pc = "done"
                   /\ IF findUserByUsername(users, reqs[i].username) # {}
                      THEN /\ reqs'[i].status = 409 /\ reqs'[i].message = DuplicateUsername
                           /\ users' = users
                      ELSE /\ reqs'[i].status = 201
                           /\ \E u \in users' \ users :
                                 /\ users' = users \cup {u}
                                 /\ u.username = reqs[i].username /\ u.id = reqs'[i].newUser
       /\ \A n \in AdminUsernames :
             AnsweredCreates(n)' # {} =>
                 /\ Cardinality({i \in AnsweredCreates(n)' : reqs'[i].status = 201}) = 1
                 /\ \A i \in AnsweredCreates(n)' :
                       reqs'[i].status # 201 =>
                           reqs'[i].status = 409 /\ reqs'[i].message = DuplicateUsername
                 /\ Cardinality(findUserByUsername(users', n)) = 1]_vars

\* Two creations of one username passed the pre-check together: one was
\* answered 201, the other 409 by the failed insert.
C36_Witness ==
    \E i, j \in AdminCreates :
        /\ reqs[i].username = reqs[j].username
        /\ reqs[i].pc = "done" /\ reqs[i].status = 201
        /\ reqs[j].pc = "done" /\ reqs[j].status = 409
        /\ reqs[j].message = DuplicateUsername
        /\ Cardinality(findUserByUsername(users, reqs[i].username)) = 1
        /\ nextUserId = reqs[i].newUser + 2

\* C37: in every reachable state every row of the users table has a role in
\* {user, admin, moderator}: the seeded admin, every user a registration
\* created and every user an admin created.
C37_RolesAreEnumerated ==
    /\ \A u \in users : u.role \in allowedRoles
    /\ \A i \in 1..MaxReq :
          (reqs[i].pc = "done" /\ reqs[i].status = 201) => reqs[i].resRole \in allowedRoles

\* The table holds the seeded admin, a registered user whose body asked for
\* a role and a user an admin created with a role other than 'user'.
C37_Witness ==
    /\ SeedAdmin \in users
    /\ \E i \in Registers, j \in AdminCreates :
          /\ reqs[i].status = 201 /\ reqs[i].role # ""
          /\ UserById(users, reqs[i].newUser).role = "user"
          /\ reqs[j].status = 201
          /\ UserById(users, reqs[j].newUser).role \in allowedRoles \ {"user"}

\* C38: a register request answered 409 DuplicateUsername has written
\* neither a user nor an invite code: the step that answers it leaves the
\* users table and every invite code row unchanged, so a code that was
\* unused stays unused, and a registration with a free username presenting
\* that code afterwards finds it and consumes it.
C38_DuplicateLeavesCode ==
    [][\A i \in 1..MaxReq :
         (reqs[i].op = "register" /\ reqs[i].pc = "addUser" /\ reqs'[i].status = 409) =>
            LET c == reqs[i].inviteCode IN
            /\ reqs'[i].pc = "done" /\ reqs'[i].message = DuplicateUsername
            /\ reqs'[i].newUser = NoUser
            /\ users' = users
            /\ invite_codes' = invite_codes
            /\ \A k \in DOMAIN invite_codes' : invite_codes'[k].used_by \notin {nextUserId, nextUserId'}
            /\ ~invite_codes[c].is_used =>
                  /\ ~invite_codes'[c].is_used /\ invite_codes'[c].used_by = NoUser
                  /\ \E row \in findInviteCode(invite_codes', c) : ~row.is_used
                  /\ markInviteCodeAsUsed(invite_codes', c, nextUserId').marked]_vars

\* A registration with a taken username was answered 409 and a later one
\* with a free username consumed the same code.
C38_Witness ==
    \E i, j \in Registers :
        /\ i < j /\ reqs[i].inviteCode = reqs[j].inviteCode
        /\ reqs[i].pc = "done" /\ reqs[i].status = 409 /\ reqs[i].username = ADMIN_USERNAME
        /\ reqs[j].pc = "done" /\ reqs[j].status = 201
        /\ invite_codes[reqs[j].inviteCode].used_by = reqs[j].newUser

\* The requests whose handler has ended without writing a response.
UnansweredRequests == {i \in 1..MaxReq : reqs[i].pc = "unanswered"}

\* C39 (as claimed): on every path no login, refresh, logout or register
\* request ends without a response.
C39_ExactlyOneResponse_AsClaimed == UnansweredRequests = {}

\* C39 (what holds): while JWT_EXPIRES_IN is a timespan, every handler step
\* of login, refresh and logout writes one response in the step itself,
\* every register request that has been answered carries one status and
\* takes no further step, a store failure is answered 500, and no request
\* ends unanswered.
C39_OneResponseUnderValidConfig ==
    [][/\ UnansweredRequests' = {}
       /\ phase' # "exited"
       /\ resp' # NoResponse => resp'.status \in {200, 400, 401, 403, 500}
       /\ (resp = NoResponse /\ (tokens' # tokens \/ blacklistedTokens' # blacklistedTokens
                                  \/ loggedOut' # loggedOut)) => resp' # NoResponse
       /\ \A i \in 1..MaxReq :
             /\ reqs[i].pc = "done" => reqs'[i] = reqs[i]
             /\ reqs'[i].pc = "done" => reqs'[i].status \in {201, 400, 409, 500}
             /\ reqs'[i].pc # "done" => reqs'[i].status = 0]_vars

\* A refresh with a valid refresh token was left unanswered.
C39_UnansweredRefresh ==
    /\ UnansweredRequests # {}
    /\ refreshToken(EarlierRefreshToken, blacklistedTokens, now).status = 200

====
